---- MODULE Spec2Model ----
(***************************************************************************)
(* MarkMuse: the image-extraction, storage and Markdown-reconstruction     *)
(* pipeline of src/markmuse.py.                                            *)
(*                                                                         *)
(* Text (image IDs, paths, URLs, Markdown) is a sequence of one-character  *)
(* strings.  The characters of the description label that are not ASCII    *)
(* are written as the tokens "U+56FE", "U+7247", "U+5206", "U+6790" and    *)
(* "U+FF1A" (one token is one character of the Python string).             *)
(***************************************************************************)
EXTENDS Integers, Sequences, FiniteSets, TLC

(***************************************************************************)
(* String primitives of Python used by the code.                           *)
(***************************************************************************)

\* min of a non-empty set of integers
SetMin(S) == CHOOSE m \in S : \A n \in S : m <= n

\* max of a non-empty set of integers
SetMax(S) == CHOOSE m \in S : \A n \in S : m >= n

\* s[a..b] with Python's clipping (empty when a > b)
Slice(s, a, b) == IF a > b THEN << >> ELSE SubSeq(s, a, b)

\* str.lower() on the characters the model uses
LowerChar(c) ==
    CASE c = "P" -> "p"
      [] c = "N" -> "n"
      [] c = "G" -> "g"
      [] c = "J" -> "j"
      [] OTHER -> c

\* str.lower()
Lower(s) == [i \in 1..Len(s) |-> LowerChar(s[i])]

\* s.endswith(suf)
EndsWith(s, suf) ==
    /\ Len(suf) <= Len(s)
    /\ SubSeq(s, Len(s) - Len(suf) + 1, Len(s)) = suf

\* s.startswith(pre) at 1-based position i
StartsWithAt(s, i, pre) ==
    /\ i >= 1
    /\ i + Len(pre) - 1 <= Len(s)
    /\ SubSeq(s, i, i + Len(pre) - 1) = pre

\* the least index >= from at which character c occurs in s, 0 when none
IndexFrom(s, c, from) ==
    IF \E j \in from..Len(s) : s[j] = c
    THEN CHOOSE j \in from..Len(s) : s[j] = c /\ \A k \in from..(j - 1) : s[k] # c
    ELSE 0

\* c in s
Contains(s, c) == \E i \in 1..Len(s) : s[i] = c

\* s.split('/')[-1]
LastSegment(s) ==
    LET slashes == {j \in 1..Len(s) : s[j] = "/"}
    IN  IF slashes = {} THEN s ELSE Slice(s, SetMax(slashes) + 1, Len(s))

\* str.replace(old, new) on s from position i: every non-overlapping
\* occurrence, left to right; the replacement text is not scanned again.
RECURSIVE ReplaceFrom(_, _, _, _)
ReplaceFrom(s, i, old, new) ==
    LET Hit(j) == s[j] = old[1] /\ StartsWithAt(s, j, old)
    IN  IF \E j \in i..Len(s) : Hit(j)
        THEN LET h == CHOOSE j \in i..Len(s) : Hit(j) /\ \A k \in i..(j - 1) : ~Hit(k)
             IN  Slice(s, i, h - 1) \o new \o ReplaceFrom(s, h + Len(old), old, new)
        ELSE Slice(s, i, Len(s))

\* str.replace(old, new); old is never empty here (it starts with "![")
StrReplace(s, old, new) == ReplaceFrom(s, 1, old, new)

(***************************************************************************)
(* The extension tests (re.search with re.IGNORECASE).  "$" matches at the *)
(* end of the string and before a newline that ends the string.            *)
(***************************************************************************)

\* the alternatives of r'\.(jpg|jpeg|png|gif|webp|bmp|tiff)$'
SaveExtensions ==
    { <<".", "j", "p", "g">>, <<".", "j", "p", "e", "g">>, <<".", "p", "n", "g">>,
      <<".", "g", "i", "f">>, <<".", "w", "e", "b", "p">>, <<".", "b", "m", "p">>,
      <<".", "t", "i", "f", "f">> }

\* the alternatives of r'\.(jpg|jpeg|png|gif|webp)$'
LinkExtensions ==
    { <<".", "j", "p", "g">>, <<".", "j", "p", "e", "g">>, <<".", "p", "n", "g">>,
      <<".", "g", "i", "f">>, <<".", "w", "e", "b", "p">> }

\* ['.png', '.jpg', '.jpeg', '.gif', '.webp'], in the order the code tries them
CandidateExtensions ==
    << <<".", "p", "n", "g">>, <<".", "j", "p", "g">>, <<".", "j", "p", "e", "g">>,
       <<".", "g", "i", "f">>, <<".", "w", "e", "b", "p">> >>

\* re.search(r'\.(e1|e2|...)$', s, re.IGNORECASE)
HasExtension(s, exts) ==
    LET l  == Lower(s)
        l2 == IF Len(l) > 0 /\ l[Len(l)] = "\n" THEN Slice(l, 1, Len(l) - 1) ELSE l
    IN  \E e \in exts : EndsWith(l, e) \/ EndsWith(l2, e)

\* '.png'
DotPng == <<".", "p", "n", "g">>

(***************************************************************************)
(* The image-reference pattern of re.findall and re.sub: "![", any run of   *)
(* characters other than "]", "](", one or more characters other than ")", *)
(* and ")".                                                                *)
(***************************************************************************)

\* The match of the pattern that starts exactly at position i, if any:
\* [ok, alt, url, stop] where stop is the position of the closing ")".
MatchAt(s, i) ==
    LET none == [ok |-> FALSE, alt |-> << >>, url |-> << >>, stop |-> 0]
    IN  IF ~StartsWithAt(s, i, <<"!", "[">>) THEN none
        ELSE LET j == IndexFrom(s, "]", i + 2)
             IN  IF j = 0 \/ j + 1 > Len(s) \/ s[j + 1] # "(" THEN none
                 ELSE LET k == IndexFrom(s, ")", j + 2)
                      IN  IF k = 0 \/ k = j + 2 THEN none
                          ELSE [ok   |-> TRUE,
                                alt  |-> Slice(s, i + 2, j - 1),
                                url  |-> Slice(s, j + 2, k - 1),
                                stop |-> k]

\* the position of the leftmost match that starts at i or later, 0 when none
NextMatch(s, i) ==
    LET Hit(j) == s[j] = "!" /\ MatchAt(s, j).ok
    IN  IF \E j \in i..Len(s) : Hit(j)
        THEN CHOOSE j \in i..Len(s) : Hit(j) /\ \A k \in i..(j - 1) : ~Hit(k)
        ELSE 0

\* re.findall(pattern, s) from position i: the (alt, url) pairs of the
\* leftmost non-overlapping matches
RECURSIVE FindAllFrom(_, _)
FindAllFrom(s, i) ==
    LET j == NextMatch(s, i)
    IN  IF j = 0 THEN << >>
        ELSE LET m == MatchAt(s, j)
             IN  << <<m.alt, m.url>> >> \o FindAllFrom(s, m.stop + 1)

\* re.findall(pattern, page_content)
FindAllRefs(s) == FindAllFrom(s, 1)

\* f"![{alt_text}]({img_url})"
ImageRef(alt, url) == <<"!", "[">> \o alt \o <<"]", "(">> \o url \o <<")">>

\* "\n\n**AI<U+56FE><U+7247><U+5206><U+6790>**<U+FF1A>"
DescriptionLabel ==
    <<"\n", "\n", "*", "*", "A", "I", "U+56FE", "U+7247", "U+5206", "U+6790",
      "*", "*", "U+FF1A">>

\* f"![{alt_text}]({img_path_or_url})\n\n**AI...**<colon>{description}\n"
EnhancedRef(alt, url, description) ==
    ImageRef(alt, url) \o DescriptionLabel \o description \o <<"\n">>

(***************************************************************************)
(* Paths.                                                                  *)
(***************************************************************************)

\* s.split('/') as a sequence of segments
RECURSIVE SplitSlash(_)
SplitSlash(s) ==
    LET j == IndexFrom(s, "/", 1)
    IN  IF j = 0 THEN << s >>
        ELSE << Slice(s, 1, j - 1) >> \o SplitSlash(Slice(s, j + 1, Len(s)))

\* '/'.join(segs)
RECURSIVE JoinSlash(_)
JoinSlash(segs) ==
    IF Len(segs) = 0 THEN << >>
    ELSE IF Len(segs) = 1 THEN segs[1]
    ELSE segs[1] \o <<"/">> \o JoinSlash(Tail(segs))

\* os.path.join(a, b) for a relative b (POSIX)
PathJoin(a, b) ==
    IF Len(a) = 0 THEN b
    ELSE IF a[Len(a)] = "/" THEN a \o b
    ELSE a \o <<"/">> \o b

\* the number of leading segments two segment lists share
RECURSIVE CommonPrefixLen(_, _)
CommonPrefixLen(a, b) ==
    IF Len(a) = 0 \/ Len(b) = 0 \/ a[1] # b[1] THEN 0
    ELSE 1 + CommonPrefixLen(Tail(a), Tail(b))

\* os.path.relpath(path, start) on POSIX for normalized paths below the same
\* working directory: ".." for each segment of start after the common prefix,
\* then the rest of path; "." when nothing is left.
RelPath(path, start) ==
    LET p    == SelectSeq(SplitSlash(path), LAMBDA x : x # << >>)
        b    == SelectSeq(SplitSlash(start), LAMBDA x : x # << >>)
        c    == CommonPrefixLen(p, b)
        ups  == [i \in 1..(Len(b) - c) |-> <<".", ".">>]
        rest == Slice(p, c + 1, Len(p))
        segs == ups \o rest
    IN  IF Len(segs) = 0 THEN <<".">> ELSE JoinSlash(segs)

\* rel_path.replace(os.sep, '/') where os.sep is '/' (POSIX)
NormalizeSep(p) == StrReplace(p, <<"/">>, <<"/">>)

(***************************************************************************)
(* _process_single_image: file name, payload decoding.                     *)
(*                                                                         *)
(* A payload (img.image_base64) is described by what decides its decoding: *)
(* mime is the <mime> of a "data:<mime>;base64," prefix ("" when there is  *)
(* no prefix), n the number of base64 alphabet characters of the body, pad *)
(* the number of "=" that follow them and ws the number of whitespace      *)
(* characters spread through the body.                                     *)
(***************************************************************************)

\* the characters of the class [\\/*?:'"<>|] that re.sub replaces by "_"
UnsafeChars == {"\\", "/", "*", "?", ":", "'", "\"", "<", ">", "|"}

\* re.sub(r"[\\/*?:'\"<>|]", "_", img_id), then '.png' appended when the
\* name has none of the known image extensions
SafeFilename(img_id) ==
    LET safe == [i \in 1..Len(img_id) |->
                    IF img_id[i] \in UnsafeChars THEN "_" ELSE img_id[i]]
    IN  IF ~HasExtension(safe, SaveExtensions) THEN safe \o DotPng ELSE safe

\* len(img_data) < 100 is rejected
MinImageBytes == 100

\* not image_base64_data: the attribute is missing, None or ""
PayloadMissing(p) == p.mime = "" /\ p.n + p.pad + p.ws = 0

\* content_type: the prefix's mime, or "image/png"
ContentType(p) == IF p.mime # "" THEN p.mime ELSE "image/png"

\* base64.b64decode(s) for s made of n alphabet characters followed by pad
\* "=": the number of bytes, or -1 when binascii raises (a lone trailing
\* character, or a last group of 2 or 3 characters without its padding)
B64DecodeLen(n, pad) ==
    LET q == n % 4
    IN  IF q = 0 THEN 3 * (n \div 4)
        ELSE IF q = 2 /\ pad >= 2 THEN 3 * (n \div 4) + 1
        ELSE IF q = 3 /\ pad >= 1 THEN 3 * (n \div 4) + 2
        ELSE -1

\* the decode with its one repair pass: len(img_data), or -1 when both
\* attempts raise.  cleaned_base64 has the whitespace removed.
DecodedLen(p) ==
    LET first  == B64DecodeLen(p.n, p.pad)
        needed == (p.n + p.pad) % 4
        padded == IF needed # 0 THEN p.pad + (4 - needed) ELSE p.pad
    IN  IF first >= 0 THEN first ELSE B64DecodeLen(p.n, padded)

\* Decodable that rejects an image of exactly MinImageBytes bytes
DecodableAbove(p) == ~PayloadMissing(p) /\ DecodedLen(p) > MinImageBytes

\* the image passes the payload checks and reaches the store step
Decodable(p) == ~PayloadMissing(p) /\ DecodedLen(p) >= MinImageBytes

(***************************************************************************)
(* The payload character by character: the data-URI prefix, the whitespace *)
(* clean-up, base64.b64decode and the padding repair of                    *)
(* _process_single_image.  A payload is a sequence of characters, a decoded *)
(* image a sequence of bytes (0..255).                                     *)
(***************************************************************************)

\* the base64 alphabet: the value of a character is its position minus 1
B64Alphabet ==
    << "A", "B", "C", "D", "E", "F", "G", "H", "I", "J", "K", "L", "M", "N", "O", "P",
       "Q", "R", "S", "T", "U", "V", "W", "X", "Y", "Z", "a", "b", "c", "d", "e", "f",
       "g", "h", "i", "j", "k", "l", "m", "n", "o", "p", "q", "r", "s", "t", "u", "v",
       "w", "x", "y", "z", "0", "1", "2", "3", "4", "5", "6", "7", "8", "9", "+", "/" >>

\* the characters binascii takes as data
B64Chars == {B64Alphabet[i] : i \in 1..64}

\* the 6-bit value of a data character
B64Value(c) == (CHOOSE i \in 1..64 : B64Alphabet[i] = c) - 1

\* the characters str.split() splits on
Whitespace == {" ", "\n", "\t", "\r"}

\* ''.join(image_base64_data.split())
Cleaned(s) == SelectSeq(s, LAMBDA c : c \notin Whitespace)

\* binascii.a2b_base64(s), not strict: characters outside the alphabet are
\* skipped; a "=" that completes the padding of a group of 2 or 3 data
\* characters ends the parse (what follows is not read); a group left with 1,
\* 2 or 3 data characters at the end of the input raises binascii.Error.
A2bBase64(s) ==
    LET IsData(i)     == s[i] \in B64Chars
        DataBefore(i) == Cardinality({j \in 1..(i - 1) : IsData(j)})
        PadsAt(i)     == Cardinality({j \in 1..i : s[j] = "=" /\ \A k \in j..i : ~IsData(k)})
        Stops == {i \in 1..Len(s) : /\ s[i] = "="
                                    /\ DataBefore(i) % 4 >= 2
                                    /\ (DataBefore(i) % 4) + PadsAt(i) >= 4}
        stop  == IF Stops = {} THEN Len(s) + 1 ELSE SetMin(Stops)
        data  == SelectSeq(Slice(s, 1, stop - 1), LAMBDA c : c \in B64Chars)
        q     == Len(data) % 4
        V(g, j) == B64Value(data[4 * g + j])
        Byte(k) ==
            LET g == (k - 1) \div 3
                r == (k - 1) % 3
            IN  IF r = 0 THEN (V(g, 1) * 4 + V(g, 2) \div 16) % 256
                ELSE IF r = 1 THEN ((V(g, 2) % 16) * 16 + V(g, 3) \div 4) % 256
                ELSE ((V(g, 3) % 4) * 64 + V(g, 4)) % 256
        nbytes == 3 * (Len(data) \div 4) + (IF q = 0 THEN 0 ELSE q - 1)
    IN  IF Stops = {} /\ q # 0 THEN [ok |-> FALSE, bytes |-> << >>]
        ELSE [ok |-> TRUE, bytes |-> [k \in 1..nbytes |-> Byte(k)]]

\* base64.b64decode(s): validate is off, so it is binascii.a2b_base64(s)
B64Decode(s) == A2bBase64(s)

\* ';base64,'
Base64Marker == <<";", "b", "a", "s", "e", "6", "4", ",">>

\* "image/png"
DefaultContentType == <<"i", "m", "a", "g", "e", "/", "p", "n", "g">>

\* sub in s
ContainsSub(s, sub) == \E i \in 1..Len(s) : s[i] = sub[1] /\ StartsWithAt(s, i, sub)

\* ',' in image_base64_data and ';base64,' in image_base64_data
HasDataPrefix(s) == Contains(s, ",") /\ ContainsSub(s, Base64Marker)

\* image_base64_data.split(';')[0].split(':')[1] when the prefix test holds:
\* [ok, value]; not ok when the text before the first ';' has no ':'
\* (IndexError, caught by the function's outer except)
PrefixContentType(s) ==
    LET head   == Slice(s, 1, IndexFrom(s, ";", 1) - 1)
        colon  == IndexFrom(head, ":", 1)
        colon2 == IndexFrom(head, ":", colon + 1)
    IN  IF colon = 0 THEN [ok |-> FALSE, value |-> << >>]
        ELSE [ok |-> TRUE,
              value |-> Slice(head, colon + 1, IF colon2 = 0 THEN Len(head) ELSE colon2 - 1)]

\* AfterFirstComma that leaves the prefix in front of the body
AfterFirstCommaKeepsPrefix(s) == s

\* image_base64_data.split(',', 1)[1]
AfterFirstComma(s) == Slice(s, IndexFrom(s, ",", 1) + 1, Len(s))

\* the repair that appends a single '='
RepairedOnePad(cleaned_base64) == cleaned_base64 \o <<"=">>

\* cleaned_base64 after the repair: '=' * (4 - padding_needed) appended when
\* padding_needed = len(cleaned_base64) % 4 is not 0
Repaired(cleaned_base64) ==
    LET padding_needed == Len(cleaned_base64) % 4
    IN  IF padding_needed # 0
        THEN cleaned_base64 \o [i \in 1..(4 - padding_needed) |-> "="]
        ELSE cleaned_base64

\* _process_single_image from the payload to the size check: st is "ok" (the
\* image goes on to the store with img_data and content_type), "missing",
\* "error" (the prefix has no ':'), "malformed" (both decodes raised) or
\* "too_small"; attempts counts the b64decode calls made.
DecodePayload(s) ==
    LET prefixed == HasDataPrefix(s)
        ctype    == IF prefixed THEN PrefixContentType(s)
                    ELSE [ok |-> TRUE, value |-> DefaultContentType]
        body     == IF prefixed THEN AfterFirstComma(s) ELSE s
        cleaned_base64 == Cleaned(body)
        first    == B64Decode(cleaned_base64)
        second   == B64Decode(Repaired(cleaned_base64))
        Out(st, bytes, n) ==
            [st |-> st, img_data |-> bytes, content_type |-> ctype.value, attempts |-> n]
        Sized(bytes, n) ==
            Out(IF Len(bytes) < MinImageBytes THEN "too_small" ELSE "ok", bytes, n)
    IN  IF Len(s) = 0 THEN Out("missing", << >>, 0)
        ELSE IF ~ctype.ok THEN Out("error", << >>, 0)
        ELSE IF first.ok THEN Sized(first.bytes, 1)
        ELSE IF second.ok THEN Sized(second.bytes, 2)
        ELSE Out("malformed", << >>, 2)

(***************************************************************************)
(* create_markdown_from_ocr: reference lookup and rewriting.               *)
(*                                                                         *)
(* An image_map value is [path, is_s3, description]; description = << >>   *)
(* stands for a dict without the "description" key and is_s3 = FALSE for a *)
(* dict without the "is_s3" key.                                           *)
(***************************************************************************)

\* img_url.split('/')[-1] if '/' in img_url else img_url
RefImageId(url) == IF Contains(url, "/") THEN LastSegment(url) ELSE url

\* FirstCandidate that keeps the last candidate extension that is a key
RECURSIVE LastCandidate(_, _, _)
LastCandidate(img_id, keys, i) ==
    IF i > Len(CandidateExtensions) THEN 0
    ELSE LET later == LastCandidate(img_id, keys, i + 1)
         IN  IF later # 0 THEN later
             ELSE IF (img_id \o CandidateExtensions[i]) \in keys THEN i
             ELSE 0

\* the first extension of CandidateExtensions, from position i on, for which
\* img_id + ext is a key; 0 when none
RECURSIVE FirstCandidate(_, _, _)
FirstCandidate(img_id, keys, i) ==
    IF i > Len(CandidateExtensions) THEN 0
    ELSE IF (img_id \o CandidateExtensions[i]) \in keys THEN i
    ELSE FirstCandidate(img_id, keys, i + 1)

\* The key under which a reference's image ID is found: the ID itself, else
\* (only for an ID without a link extension) the first ID+ext that is a key.
\* [found, key]
LookupKey(img_id, keys) ==
    IF img_id \in keys THEN [found |-> TRUE, key |-> img_id]
    ELSE IF ~HasExtension(img_id, LinkExtensions)
         THEN LET c == FirstCandidate(img_id, keys, 1)
              IN  IF c = 0 THEN [found |-> FALSE, key |-> << >>]
                  ELSE [found |-> TRUE, key |-> img_id \o CandidateExtensions[c]]
    ELSE [found |-> FALSE, key |-> << >>]

\* Locator that writes the stored path of a local record as it is
LocatorVerbatim(rec, output_dir) == rec.path

\* the link target written for a record: the URL as it is, or the path
\* relative to output_dir with '/' separators
Locator(rec, output_dir) ==
    IF rec.is_s3 THEN rec.path ELSE NormalizeSep(RelPath(rec.path, output_dir))

\* ReplaceImageLink that removes a reference it cannot resolve
ReplaceImageLinkDropsUnresolved(alt, url, whole, image_map, output_dir) ==
    LET look == LookupKey(RefImageId(url), DOMAIN image_map)
    IN  IF look.found /\ image_map[look.key].path # << >>
        THEN ImageRef(alt, Locator(image_map[look.key], output_dir))
        ELSE << >>

\* replace_image_link(match): the text that replaces one match
ReplaceImageLink(alt, url, whole, image_map, output_dir) ==
    LET look == LookupKey(RefImageId(url), DOMAIN image_map)
    IN  IF look.found /\ image_map[look.key].path # << >>
        THEN ImageRef(alt, Locator(image_map[look.key], output_dir))
        ELSE whole

\* re.sub(pattern, replace_image_link, s) from position i
RECURSIVE SubImageLinksFrom(_, _, _, _)
SubImageLinksFrom(s, i, image_map, output_dir) ==
    LET j == NextMatch(s, i)
    IN  IF j = 0 THEN Slice(s, i, Len(s))
        ELSE LET m == MatchAt(s, j)
             IN  Slice(s, i, j - 1)
                    \o ReplaceImageLink(m.alt, m.url, Slice(s, j, m.stop), image_map, output_dir)
                    \o SubImageLinksFrom(s, m.stop + 1, image_map, output_dir)

\* the body of the enhanced-mode loop for one (alt_text, img_url) of img_refs:
\* page_content after the replacement, unchanged when the reference resolves
\* to no record or to a record without description
EnhanceOne(page_content, alt, url, image_map, output_dir) ==
    LET look == LookupKey(RefImageId(url), DOMAIN image_map)
    IN  IF look.found /\ image_map[look.key].description # << >>
        THEN StrReplace(page_content, ImageRef(alt, url),
                        EnhancedRef(alt, Locator(image_map[look.key], output_dir),
                                    image_map[look.key].description))
        ELSE page_content

\* the enhanced-mode loop over img_refs from index i, on the running page_content
RECURSIVE EnhanceLoop(_, _, _, _, _)
EnhanceLoop(page_content, refs, i, image_map, output_dir) ==
    IF i > Len(refs) THEN page_content
    ELSE EnhanceLoop(EnhanceOne(page_content, refs[i][1], refs[i][2], image_map, output_dir),
                     refs, i + 1, image_map, output_dir)

\* one page of the page loop: img_refs is found once, on the page as the OCR
\* gave it
EnhancePage(markdown, image_map, output_dir) ==
    EnhanceLoop(markdown, FindAllRefs(markdown), 1, image_map, output_dir)

\* "\n\n".join(all_content)
RECURSIVE JoinPages(_)
JoinPages(all_content) ==
    IF Len(all_content) = 0 THEN << >>
    ELSE IF Len(all_content) = 1 THEN all_content[1]
    ELSE all_content[1] \o <<"\n", "\n">> \o JoinPages(Tail(all_content))

\* markdown_content of create_markdown_from_ocr for the pages' markdown texts,
\* in the order the OCR response holds the pages
MarkdownContent(markdowns, image_map, enhance, output_dir) ==
    LET all_content == [i \in 1..Len(markdowns) |->
                           IF enhance THEN EnhancePage(markdowns[i], image_map, output_dir)
                           ELSE markdowns[i]]
        joined == JoinPages(all_content)
    IN  IF ~enhance THEN SubImageLinksFrom(joined, 1, image_map, output_dir)
        ELSE joined

(***************************************************************************)
(* The conversion: MarkMuse.create_markdown_from_ocr with its call of      *)
(* save_images_from_ocr, the worker threads of the ThreadPoolExecutor      *)
(* running _process_single_image, and the write of the document.           *)
(***************************************************************************)

\* the most images a document of the model holds
MaxImages == 2

\* the largest parallel_images the model configures
MaxParallel == 2

\* payloads: 136 base64 characters decode to 102 bytes, 132 to 99 bytes
BigPayload == [mime |-> "", n |-> 136, pad |-> 0, ws |-> 0]
JpegPayload == [mime |-> "image/jpeg", n |-> 134, pad |-> 2, ws |-> 3]
SmallPayload == [mime |-> "", n |-> 132, pad |-> 0, ws |-> 0]

\* the images the OCR response of the model is made of: "a" has no
\* extension, "b.jpg" has one and a data-URI payload, "c" is too small
ImagePool ==
    { [id |-> <<"a">>, image_base64 |-> BigPayload],
      [id |-> <<"b", ".", "j", "p", "g">>, image_base64 |-> JpegPayload],
      [id |-> <<"c">>, image_base64 |-> SmallPayload] }

\* the sequences of at most n elements of S
SeqUpTo(S, n) == UNION {[1..k -> S] : k \in 0..n}

\* page.markdown of a page: one reference per image of the page, as the OCR
\* writes it (the image ID as target), each followed by a line of text
RECURSIVE PageMarkdown(_)
PageMarkdown(imgs) ==
    IF Len(imgs) = 0 THEN << >>
    ELSE ImageRef(<<"x">>, imgs[1].id) \o <<"t", "\n">> \o PageMarkdown(Tail(imgs))

\* output_dir and filename of the conversion
OutputDir == <<"o">>
Filename == <<"f">>

\* images_dir = os.path.join(output_dir, f"{filename}_images")
ImagesDir(output_dir, filename) ==
    PathJoin(output_dir, filename \o <<"_", "i", "m", "a", "g", "e", "s">>)

\* output_file = os.path.join(output_dir, f"{filename}.md")
OutputFile(output_dir, filename) ==
    PathJoin(output_dir, filename \o <<".", "m", "d">>)

\* img_path = os.path.join(images_dir, safe_filename)
ImagePath(images_dir, img_id) == PathJoin(images_dir, SafeFilename(img_id))

\* s3_key = f"{Path(images_dir).name}/{safe_filename}"
S3Key(images_dir, img_id) ==
    LastSegment(images_dir) \o <<"/">> \o SafeFilename(img_id)

\* get_public_url(remote_path): the endpoint and bucket, then the key
PublicUrl(remote_path) == <<"h", ":", "/", "/", "e", "/", "k", "/">> \o remote_path

\* what storage_client.upload_bytes can do: return the URL, return None, raise
UploadOutcomes == {"url", "none", "raise"}

\* what open(img_path, 'wb') and f.write can do: complete, or raise
WriteOutcomes == {"ok", "raise"}

\* what the describer can do: return a text, return "", raise
DescribeOutcomes == {"text", "empty", "raise"}

\* the text the describer returns for an image
DescriptionText == <<"d">>

\* future.result() of a task that returned None
NoResult == [ok |-> FALSE, img_id |-> << >>,
             img_data |-> [path |-> << >>, is_s3 |-> FALSE, description |-> << >>]]

VARIABLES
    use_s3,            \* self.use_s3 (a storage client exists when it is set)
    enhance_images,    \* self.enhance_images (an LLM client exists when set)
    parallel_images,   \* self.parallel_images
    filename,          \* filename of create_markdown_from_ocr
    pages,             \* ocr_response.pages: each page is [index, images, markdown]
    task,              \* per image task: its arguments, its future, its locals
    image_map,         \* image_map of save_images_from_ocr
    pbar,              \* the progress bar's count
    remote_objects,    \* the remote store: URL -> the task whose bytes it holds
    local_files,       \* the local files: path -> the task whose bytes it holds
    phase,             \* where the main thread is
    markdown_content,  \* markdown_content of create_markdown_from_ocr
    final_output_path, \* what create_markdown_from_ocr returns
    img_source,        \* the image as the OCR service encoded it
    image_base64_data, \* the payload handed to the decoding of one image
    decoded,           \* what the decoding made of it
    redis_data,        \* the Redis server: key -> [value, ttl]
    redis_sent,        \* for each key the server holds, the value given to set
    redis_reply,       \* what the last call of RedisClient.get returned
    task_class,        \* the class of the Celery task that reports progress
    track_progress,    \* its track_progress attribute
    current_task,      \* whether celery.current_task is set
    progress,          \* its progress attribute
    progress_arg,      \* the argument of the last update_progress call
    published,         \* the progress values of its PROGRESS states
    progress_log,      \* the progress values written to its TaskAuditLog row
    api_pc,            \* per submitted task: where the API handler is
    worker_pc,         \* per submitted task: where the worker run is
    task_base,         \* per submitted task: the base class of the task
    audit_row,         \* per submitted task: the status of its TaskAuditLog row
    task_result        \* what the PDF task returned, or that it raised

\* the variables of the conversion (create_markdown_from_ocr)
pipeline_vars ==
    <<use_s3, enhance_images, parallel_images, filename, pages, task, image_map, pbar,
      remote_objects, local_files, phase, markdown_content, final_output_path>>

\* the variables of the functions and services looked at on their own
decode_vars == <<img_source, image_base64_data, decoded>>
redis_vars == <<redis_data, redis_sent, redis_reply>>
progress_vars ==
    <<task_class, track_progress, current_task, progress, progress_arg, published, progress_log>>
audit_vars == <<api_pc, worker_pc, task_base, audit_row>>
job_vars == <<task_result>>
other_vars == <<decode_vars, redis_vars, progress_vars, audit_vars, job_vars>>

\* what a step of the decoding, of the Redis client, of a progress report
\* leaves alone
beside_decode == <<pipeline_vars, redis_vars, progress_vars, audit_vars, job_vars>>
beside_redis == <<pipeline_vars, decode_vars, progress_vars, audit_vars, job_vars>>
beside_progress == <<pipeline_vars, decode_vars, redis_vars, audit_vars, job_vars>>
beside_audit == <<pipeline_vars, decode_vars, redis_vars, progress_vars, job_vars>>
beside_job == <<decode_vars, redis_vars, progress_vars, audit_vars>>

vars == <<pipeline_vars, other_vars>>

\* no payload is being decoded
NotDecoded == [st |-> "none"]

\* no image was encoded
NoSource == [bytes |-> << >>, strip |-> 0, cut |-> 0, mime |-> << >>, ws |-> "none"]

\* no call of RedisClient.get has returned since the last change
NoReply == [st |-> "none"]

\* update_progress was not called
NoProgressArg == [st |-> "none"]

DecodeIdle ==
    /\ img_source = NoSource
    /\ image_base64_data = << >>
    /\ decoded = NotDecoded

RedisIdle ==
    /\ redis_data = << >>
    /\ redis_sent = << >>
    /\ redis_reply = NoReply

ProgressIdle ==
    /\ task_class = "none"
    /\ track_progress = FALSE
    /\ current_task = FALSE
    /\ progress = 0
    /\ progress_arg = NoProgressArg
    /\ published = {}
    /\ progress_log = {}

\* the tasks submitted through the API
SubmittedTasks == {"t1", "t2"}

\* no request came in
AuditIdle ==
    /\ api_pc = [id \in SubmittedTasks |-> "idle"]
    /\ worker_pc = [id \in SubmittedTasks |-> [st |-> "none", reports |-> 0]]
    /\ task_base = [id \in SubmittedTasks |-> "none"]
    /\ audit_row = [id \in SubmittedTasks |-> "absent"]

\* the PDF task has not come to its end
NoTaskResult == [st |-> "none", url |-> << >>]

JobIdle == task_result = NoTaskResult

\* the functions and services looked at on their own are not in use
OthersIdle ==
    /\ DecodeIdle
    /\ RedisIdle
    /\ ProgressIdle
    /\ AuditIdle
    /\ JobIdle

\* image_tasks: the (page_idx, img_idx, img) of every image, pages in order
RECURSIVE ImageTasksFrom(_, _)
ImageTasksFrom(ps, page_idx) ==
    IF page_idx > Len(ps) THEN << >>
    ELSE [i \in 1..Len(ps[page_idx].images) |->
             [page_idx |-> page_idx, img_idx |-> i, img |-> ps[page_idx].images[i]]]
         \o ImageTasksFrom(ps, page_idx + 1)

\* the future of executor.submit(self._process_single_image, task_data,
\* images_dir), before a worker runs it: the arguments, and the locals unset
NewTask(task_data) ==
    [task_data |-> task_data, st |-> "queued", runs |-> 0, upload |-> "skip",
     write |-> "skip", describe |-> "skip", img_url |-> << >>, img_path |-> << >>,
     result |-> NoResult]

\* futures: one per element of image_tasks, in submission order
SubmitAll(ps) ==
    LET image_tasks == ImageTasksFrom(ps, 1)
    IN  [t \in 1..Len(image_tasks) |-> NewTask(image_tasks[t])]

\* the task numbers
Tasks == DOMAIN task

\* page_idx, img_idx, img = task_data
Img(t) == task[t].task_data.img

\* a page as the OCR returns it for the images it found on it
Page(index, imgs) ==
    [index |-> index, images |-> imgs, markdown |-> PageMarkdown(imgs)]

\* a document of two pages: the first page holds the first half of the images
Paginate(imgs) ==
    LET h == (Len(imgs) + 1) \div 2
    IN  << Page(0, Slice(imgs, 1, h)), Page(1, Slice(imgs, h + 1, Len(imgs))) >>

\* the documents: two pages that hold at most MaxImages images together
Documents == {Paginate(imgs) : imgs \in SeqUpTo(ImagePool, MaxImages)}

Init ==
    /\ OthersIdle
    /\ use_s3 \in BOOLEAN
    /\ enhance_images \in BOOLEAN
    /\ parallel_images \in 1..MaxParallel
    /\ filename = Filename
    /\ pages \in Documents
    /\ task = SubmitAll(pages)
    /\ image_map = << >>
    /\ pbar = 0
    /\ remote_objects = << >>
    /\ local_files = << >>
    /\ phase = "extract"
    /\ markdown_content = << >>
    /\ final_output_path = << >>

\* the tasks a worker thread is running
Running == {t \in Tasks : task[t].st \in {"running", "stored"}}

\* WorkerFree without the pool's bound: a thread per submitted task
WorkerAlwaysFree == TRUE

\* a worker thread is free to take the next task of the executor's queue
WorkerFree == Cardinality(Running) < parallel_images

\* a worker thread takes the task at the head of the executor's queue
StartTask(t) ==
    /\ task[t].st = "queued"
    /\ \A u \in Tasks : u < t => task[u].st # "queued"
    /\ WorkerFree
    /\ task' = [task EXCEPT ![t].st = "running", ![t].runs = @ + 1]
    /\ UNCHANGED <<use_s3, enhance_images, parallel_images, filename, pages, image_map, pbar,
                   remote_objects, local_files, phase, markdown_content,
                   final_output_path>>
    /\ UNCHANGED other_vars

\* the store in dictionary d with key k set to v
Put(d, k, v) == (k :> v) @@ d

\* StoreStep that builds the local path before the write is known to have
\* completed: a failed write still leaves the task with its img_path
StoreStepLinkFirst(img, remote, up, w) ==
    LET images_dir == ImagesDir(OutputDir, filename)
        fail == [st |-> "done", upload |-> "skip", write |-> "skip",
                 img_url |-> << >>, img_path |-> << >>]
    IN  IF ~Decodable(img.image_base64) THEN fail
        ELSE IF remote /\ up = "raise" THEN [fail EXCEPT !.upload = "raise"]
        ELSE IF remote /\ up = "url"
             THEN [st |-> "stored", upload |-> "url", write |-> "skip",
                   img_url |-> PublicUrl(S3Key(images_dir, img.id)), img_path |-> << >>]
        ELSE [st |-> "stored", upload |-> IF remote THEN "none" ELSE "skip",
              write |-> w, img_url |-> << >>,
              img_path |-> ImagePath(images_dir, img.id)]

\* the task after the store steps of _process_single_image, for the outcome
\* up of upload_bytes and w of the local write: [st, upload, write, img_url,
\* img_path]; st = "done" when the function has returned None
StoreStep(img, remote, up, w) ==
    LET images_dir == ImagesDir(OutputDir, filename)
        fail == [st |-> "done", upload |-> "skip", write |-> "skip",
                 img_url |-> << >>, img_path |-> << >>]
    IN  IF ~Decodable(img.image_base64) THEN fail
        ELSE IF remote /\ up = "raise" THEN [fail EXCEPT !.upload = "raise"]
        ELSE IF remote /\ up = "url"
             THEN [st |-> "stored", upload |-> "url", write |-> "skip",
                   img_url |-> PublicUrl(S3Key(images_dir, img.id)), img_path |-> << >>]
        ELSE IF w = "raise"
             THEN [fail EXCEPT !.upload = IF remote THEN "none" ELSE "skip",
                               !.write = "raise"]
        ELSE [st |-> "stored", upload |-> IF remote THEN "none" ELSE "skip",
              write |-> "ok", img_url |-> << >>,
              img_path |-> ImagePath(images_dir, img.id)]

\* StoreImage that gives up on the remote store for the rest of the run once
\* an upload has failed
StoreImageSwitchesMode(t) ==
    /\ task[t].st = "running"
    /\ \E up \in UploadOutcomes, w \in WriteOutcomes :
          LET r == StoreStep(Img(t), use_s3, up, w)
          IN  /\ task' = [task EXCEPT ![t].st = r.st, ![t].upload = r.upload,
                                      ![t].write = r.write, ![t].img_url = r.img_url,
                                      ![t].img_path = r.img_path]
              /\ remote_objects' = IF r.upload = "url"
                                   THEN Put(remote_objects, r.img_url, t)
                                   ELSE remote_objects
              /\ local_files' = IF r.write = "ok"
                                THEN Put(local_files, r.img_path, t)
                                ELSE local_files
              /\ use_s3' = IF r.upload \in {"none", "raise"} THEN FALSE ELSE use_s3
    /\ UNCHANGED <<enhance_images, parallel_images, filename, pages, image_map, pbar,
                   phase, markdown_content, final_output_path>>
    /\ UNCHANGED other_vars

\* _process_single_image up to the store: payload checks, upload, local write
StoreImage(t) ==
    /\ task[t].st = "running"
    /\ \E up \in UploadOutcomes, w \in WriteOutcomes :
          LET r == StoreStep(Img(t), use_s3, up, w)
          IN  /\ task' = [task EXCEPT ![t].st = r.st, ![t].upload = r.upload,
                                      ![t].write = r.write, ![t].img_url = r.img_url,
                                      ![t].img_path = r.img_path]
              /\ remote_objects' = IF r.upload = "url"
                                   THEN Put(remote_objects, r.img_url, t)
                                   ELSE remote_objects
              /\ local_files' = IF r.write = "ok"
                                THEN Put(local_files, r.img_path, t)
                                ELSE local_files
    /\ UNCHANGED <<use_s3, enhance_images, parallel_images, filename, pages, image_map, pbar,
                   phase, markdown_content, final_output_path>>
    /\ UNCHANGED other_vars

\* the value _process_single_image returns after the store succeeded:
\* (img_id, {"path", "description"?, "is_s3"?})
BuildResult(img_id, img_url, img_path, description) ==
    [ok |-> TRUE, img_id |-> img_id,
     img_data |-> IF img_url # << >>
                  THEN [path |-> img_url, is_s3 |-> TRUE, description |-> description]
                  ELSE [path |-> img_path, is_s3 |-> FALSE, description |-> description]]

\* DescribeImage in which an error of the describer reaches the outer handler
\* of _process_single_image: the task returns None
DescribeImageFatal(t) ==
    /\ task[t].st = "stored"
    /\ \E d \in DescribeOutcomes :
          LET outcome == IF enhance_images THEN d ELSE "skip"
              description == IF outcome = "text" THEN DescriptionText ELSE << >>
          IN  task' = [task EXCEPT
                          ![t].st = "done",
                          ![t].describe = outcome,
                          ![t].result = IF outcome = "raise" THEN NoResult
                                        ELSE BuildResult(Img(t).id, task[t].img_url,
                                                         task[t].img_path, description)]
    /\ UNCHANGED <<use_s3, enhance_images, parallel_images, filename, pages, image_map, pbar,
                   remote_objects, local_files, phase, markdown_content,
                   final_output_path>>
    /\ UNCHANGED other_vars

\* _process_single_image from the describer call to its return
DescribeImage(t) ==
    /\ task[t].st = "stored"
    /\ \E d \in DescribeOutcomes :
          LET outcome == IF enhance_images THEN d ELSE "skip"
              description == IF outcome = "text" THEN DescriptionText ELSE << >>
          IN  task' = [task EXCEPT
                          ![t].st = "done",
                          ![t].describe = outcome,
                          ![t].result = BuildResult(Img(t).id, task[t].img_url,
                                                    task[t].img_path, description)]
    /\ UNCHANGED <<use_s3, enhance_images, parallel_images, filename, pages, image_map, pbar,
                   remote_objects, local_files, phase, markdown_content,
                   final_output_path>>
    /\ UNCHANGED other_vars

\* InsertResult that keeps only the first result it is given (an update lost)
InsertResultLost(m, result) ==
    IF ~result.ok \/ DOMAIN m # {} THEN m
    ELSE LET m1 == Put(m, result.img_id, result.img_data)
         IN  IF ~HasExtension(result.img_id, SaveExtensions)
             THEN Put(m1, result.img_id \o DotPng, result.img_data)
             ELSE m1

\* image_map after the body of the as_completed loop for one result
InsertResult(m, result) ==
    IF ~result.ok THEN m
    ELSE LET m1 == Put(m, result.img_id, result.img_data)
         IN  IF ~HasExtension(result.img_id, SaveExtensions)
             THEN Put(m1, result.img_id \o DotPng, result.img_data)
             ELSE m1

\* the main thread takes a completed future from as_completed
Collect(t) ==
    /\ phase = "extract"
    /\ task[t].st = "done"
    /\ task' = [task EXCEPT ![t].st = "collected"]
    /\ image_map' = InsertResult(image_map, task[t].result)
    /\ pbar' = pbar + 1
    /\ UNCHANGED <<use_s3, enhance_images, parallel_images, filename, pages, remote_objects,
                   local_files, phase, markdown_content, final_output_path>>
    /\ UNCHANGED other_vars

\* ExtractionComplete that does not wait: the tasks are merely submitted
ExtractionSubmitted == TRUE

\* the as_completed loop has yielded every future and the executor has shut
\* down: save_images_from_ocr returns
ExtractionComplete == \A t \in Tasks : task[t].st = "collected"

\* page.markdown of every page
PageMarkdowns == [i \in 1..Len(pages) |-> pages[i].markdown]

\* create_markdown_from_ocr from the return of save_images_from_ocr to the
\* rewritten markdown_content
Resolve ==
    /\ phase = "extract"
    /\ ExtractionComplete
    /\ markdown_content' = MarkdownContent(PageMarkdowns, image_map, enhance_images,
                                           OutputDir)
    /\ phase' = "resolved"
    /\ UNCHANGED <<use_s3, enhance_images, parallel_images, filename, pages, task, image_map,
                   pbar, remote_objects, local_files, final_output_path>>
    /\ UNCHANGED other_vars

\* what storage_client.upload_file can do: return the public URL, return
\* None (the bucket does not exist), raise StorageError
UploadFileOutcomes == {"url", "none", "raise"}

\* final_output_path for the outcome w of writing output_file and up of
\* upload_file: "" when either raises, the URL when the upload returns one,
\* else the local path
FinalOutputPath(remote, w, up) ==
    IF w = "raise" THEN << >>
    ELSE IF remote /\ up = "raise" THEN << >>
    ELSE IF remote /\ up = "url"
         THEN PublicUrl(filename \o <<"/">> \o filename \o <<".", "m", "d">>)
    ELSE OutputFile(OutputDir, filename)

\* the write of the document and its upload
WriteMarkdown ==
    /\ phase = "resolved"
    /\ \E w \in WriteOutcomes, up \in UploadFileOutcomes :
          /\ final_output_path' = FinalOutputPath(use_s3, w, up)
          /\ local_files' = IF w = "ok"
                            THEN Put(local_files, OutputFile(OutputDir, filename), 0)
                            ELSE local_files
          /\ remote_objects' = IF w = "ok" /\ use_s3 /\ up = "url"
                               THEN Put(remote_objects,
                                        PublicUrl(filename \o <<"/">> \o filename
                                                  \o <<".", "m", "d">>), 0)
                               ELSE remote_objects
    /\ phase' = "done"
    /\ UNCHANGED <<use_s3, enhance_images, parallel_images, filename, pages, task, image_map,
                   pbar, markdown_content>>
    /\ UNCHANGED other_vars

Next ==
    \/ \E t \in Tasks : StartTask(t)
    \/ \E t \in Tasks : StoreImage(t)
    \/ \E t \in Tasks : DescribeImage(t)
    \/ \E t \in Tasks : Collect(t)
    \/ Resolve
    \/ WriteMarkdown

Spec == Init /\ [][Next]_vars

(***************************************************************************)
(* The conversion of documents whose page text refers to the images the    *)
(* way documents do: by the image ID, by the ID under a directory, by the  *)
(* ID without its extension or with '.png' added, between other text and   *)
(* next to a link that is not an image.  The resolver is then run a second  *)
(* time on the text it produced, with the same image_map.                  *)
(***************************************************************************)

\* the images of these documents: both decode to at least 100 bytes
ResolvePool == {img \in ImagePool : Decodable(img.image_base64)}

\* the link targets under which a page refers to the image img_id
RefTargets(img_id) ==
    { img_id,
      <<"p", "/">> \o img_id,
      IF HasExtension(img_id, SaveExtensions)
      THEN Slice(img_id, 1, SetMax({i \in 1..Len(img_id) : img_id[i] = "."}) - 1)
      ELSE img_id \o DotPng }

\* a link that is not an image reference
PlainLink == <<"[", "l", "]", "(", "a", ")">>

\* page.markdown of a page that refers to its images by the given targets
RECURSIVE RefMarkdown(_)
RefMarkdown(targets) ==
    IF Len(targets) = 0 THEN PlainLink
    ELSE <<"s">> \o ImageRef(<<"x">>, targets[1]) \o <<"t", "\n">>
            \o RefMarkdown(Tail(targets))

\* a document of two pages: the first page holds the first half of the images
RefPaginate(imgs, targets) ==
    LET h == (Len(imgs) + 1) \div 2
    IN  << [index |-> 0, images |-> Slice(imgs, 1, h),
            markdown |-> RefMarkdown(Slice(targets, 1, h))],
           [index |-> 1, images |-> Slice(imgs, h + 1, Len(imgs)),
            markdown |-> RefMarkdown(Slice(targets, h + 1, Len(targets)))] >>

\* the documents: each image of the pool at most once, under any of its targets
ResolveDocuments ==
    UNION { { RefPaginate(imgs, targets) :
                targets \in { f \in [1..Len(imgs) -> UNION {RefTargets(img.id) : img \in ResolvePool}] :
                                \A i \in 1..Len(imgs) : f[i] \in RefTargets(imgs[i].id) } } :
            imgs \in { q \in SeqUpTo(ResolvePool, Cardinality(ResolvePool)) :
                         \A i, j \in 1..Len(q) : i # j => q[i] # q[j] } }

InitResolve ==
    /\ OthersIdle
    /\ use_s3 \in BOOLEAN
    /\ enhance_images \in BOOLEAN
    /\ parallel_images \in 1..MaxParallel
    /\ filename = Filename
    /\ pages \in ResolveDocuments
    /\ task = SubmitAll(pages)
    /\ image_map = << >>
    /\ pbar = 0
    /\ remote_objects = << >>
    /\ local_files = << >>
    /\ phase = "extract"
    /\ markdown_content = << >>
    /\ final_output_path = << >>

\* the page loop and the link rewriting of create_markdown_from_ocr run on a
\* response whose one page holds the text already rewritten, with the same
\* image_map
ResolveAgain ==
    /\ phase = "resolved"
    /\ markdown_content' = MarkdownContent(<<markdown_content>>, image_map,
                                           enhance_images, OutputDir)
    /\ phase' = "resolved2"
    /\ UNCHANGED <<use_s3, enhance_images, parallel_images, filename, pages, task, image_map,
                   pbar, remote_objects, local_files, final_output_path>>
    /\ UNCHANGED other_vars

NextResolve ==
    \/ \E t \in Tasks : StartTask(t)
    \/ \E t \in Tasks : StoreImage(t)
    \/ \E t \in Tasks : DescribeImage(t)
    \/ \E t \in Tasks : Collect(t)
    \/ Resolve
    \/ ResolveAgain

SpecResolve == InitResolve /\ [][NextResolve]_vars

(***************************************************************************)
(* The link rewriting of create_markdown_from_ocr on its own: the images   *)
(* are stored and collected, and the page holds up to MaxRefs references   *)
(* drawn from targets that resolve exactly, by a candidate extension, by   *)
(* their last path segment, or not at all.                                 *)
(***************************************************************************)

\* the most references a page of these documents holds
MaxRefs == 2

\* the images: "a" has no extension, "b" has a '.jpg' and a '.png' image
LinkImages ==
    << [id |-> <<"a">>, image_base64 |-> BigPayload],
       [id |-> <<"b", ".", "j", "p", "g">>, image_base64 |-> JpegPayload],
       [id |-> <<"b", ".", "p", "n", "g">>, image_base64 |-> BigPayload] >>

\* the link targets of the references: an ID, an ID under a directory, an ID
\* without its extension, the name of no image, and the relative path that
\* a link to the stored file of "a" holds
LinkTargets ==
    { <<"a">>, <<"p", "/", "a">>, <<"b">>, <<"b", ".", "j", "p", "g">>, <<"z">>,
      NormalizeSep(RelPath(ImagePath(ImagesDir(OutputDir, Filename), <<"a">>),
                           OutputDir)) }

\* the future of a task that stored its image (upload outcome up, local
\* write completed), met the describer outcome d, and was collected
FinishedTask(task_data, remote, enhance, up, d) ==
    LET r == StoreStep(task_data.img, remote, up, "ok")
        outcome == IF enhance THEN d ELSE "skip"
    IN  [task_data |-> task_data, st |-> "collected", runs |-> 1,
         upload |-> r.upload, write |-> r.write, describe |-> outcome,
         img_url |-> r.img_url, img_path |-> r.img_path,
         result |-> BuildResult(task_data.img.id, r.img_url, r.img_path,
                                IF outcome = "text" THEN DescriptionText ELSE << >>)]

\* image_map after the results of the futures fs were inserted in order
RECURSIVE InsertAll(_, _)
InsertAll(fs, i) ==
    IF i = 0 THEN << >> ELSE InsertResult(InsertAll(fs, i - 1), fs[i].result)

\* the stores after the tasks fs ran: URL or path -> task
RECURSIVE StoredAll(_, _, _)
StoredAll(fs, i, remote) ==
    IF i = 0 THEN << >>
    ELSE IF remote = (fs[i].img_url # << >>)
         THEN Put(StoredAll(fs, i - 1, remote),
                  IF remote THEN fs[i].img_url ELSE fs[i].img_path, i)
         ELSE StoredAll(fs, i - 1, remote)

\* the documents of one page that holds the first images of LinkImages and
\* references with targets of link_targets
LinkDocuments(link_targets) ==
    { << [index |-> 0, images |-> SubSeq(LinkImages, 1, k),
          markdown |-> RefMarkdown(targets)] >> :
        k \in 0..Len(LinkImages), targets \in SeqUpTo(link_targets, MaxRefs) }

\* the state in which save_images_from_ocr returns, for a filename of
\* filenames and a document of documents: every image stored and collected
LinksInit(filenames, documents) ==
    /\ OthersIdle
    /\ use_s3 \in BOOLEAN
    /\ enhance_images \in BOOLEAN
    /\ parallel_images = 1
    /\ filename \in filenames
    /\ pages \in documents
    /\ LET image_tasks == ImageTasksFrom(pages, 1)
       IN  \E up \in {"url", "none"},
              ds \in [1..Len(image_tasks) -> {"text", "empty"}] :
              task = [t \in 1..Len(image_tasks) |->
                         FinishedTask(image_tasks[t], use_s3, enhance_images,
                                      up, ds[t])]
    /\ image_map = InsertAll(task, Len(task))
    /\ pbar = Len(task)
    /\ remote_objects = StoredAll(task, Len(task), TRUE)
    /\ local_files = StoredAll(task, Len(task), FALSE)
    /\ phase = "extract"
    /\ markdown_content = << >>
    /\ final_output_path = << >>

InitLinks == LinksInit({Filename}, LinkDocuments(LinkTargets))

NextLinks == Resolve

SpecLinks == InitLinks /\ [][NextLinks]_vars

(***************************************************************************)
(* The link rewriting and the write of the document for output filenames   *)
(* with and without a directory part, such as the 'processed/<id>/<stem>'  *)
(* name of the Celery tasks.                                               *)
(***************************************************************************)

\* output filenames: a plain stem, and a stem under a directory
Filenames == { Filename, <<"p", "/">> \o Filename }

InitPaths == LinksInit(Filenames, LinkDocuments({<<"a">>, <<"b">>}))

NextPaths ==
    \/ Resolve
    \/ WriteMarkdown

SpecPaths == InitPaths /\ [][NextPaths]_vars

(***************************************************************************)
(* The assembly of the document from an OCR response that holds its pages  *)
(* in any order.                                                           *)
(***************************************************************************)

\* three pages of a response: the first two hold an image and refer to it
IndexedPages ==
    { [index |-> 0, images |-> << LinkImages[1] >>,
       markdown |-> RefMarkdown(<< LinkImages[1].id >>)],
      [index |-> 1, images |-> << LinkImages[2] >>,
       markdown |-> <<"u">> \o RefMarkdown(<< LinkImages[2].id >>)],
      [index |-> 2, images |-> << >>, markdown |-> <<"v", "\n">>] }

\* the responses: some of the pages, each once, held in any order
PageOrders ==
    { ps \in SeqUpTo(IndexedPages, Cardinality(IndexedPages)) :
        /\ Len(ps) > 0
        /\ \A i, j \in 1..Len(ps) : i # j => ps[i] # ps[j] }

InitPages == LinksInit({Filename}, PageOrders)

NextPages ==
    \/ Resolve
    \/ WriteMarkdown

SpecPages == InitPages /\ [][NextPages]_vars

(***************************************************************************)
(* The extraction alone: save_images_from_ocr from the submission of the   *)
(* tasks to the collection of the last future, for the documents of Init.  *)
(***************************************************************************)

NextExtract ==
    \/ \E t \in Tasks : StartTask(t)
    \/ \E t \in Tasks : StoreImage(t)
    \/ \E t \in Tasks : DescribeImage(t)
    \/ \E t \in Tasks : Collect(t)

SpecExtract == Init /\ [][NextExtract]_vars

(***************************************************************************)
(* The decoding alone: one image as the OCR service sends it, and the      *)
(* payload handling of _process_single_image applied to it.                *)
(*                                                                         *)
(* The service encodes the image's bytes in base64 (RFC 4648); on the way  *)
(* the encoding may lose some of its trailing "=" (strip), further         *)
(* trailing characters (cut), get a "data:<mime>;base64," prefix, and get  *)
(* whitespace spread through it.                                           *)
(***************************************************************************)

\* the conversion is not running
PipelineOff ==
    /\ use_s3 = FALSE
    /\ enhance_images = FALSE
    /\ parallel_images = 1
    /\ filename = Filename
    /\ pages = << >>
    /\ task = << >>
    /\ image_map = << >>
    /\ pbar = 0
    /\ remote_objects = << >>
    /\ local_files = << >>
    /\ phase = "off"
    /\ markdown_content = << >>
    /\ final_output_path = << >>

\* the base64 encoding of a sequence of bytes, with its padding
B64Encode(b) ==
    LET n      == Len(b)
        groups == (n + 2) \div 3
        At(i)  == IF i <= n THEN b[i] ELSE 0
        pads   == (3 - (n % 3)) % 3
        Sextet(p) ==
            LET g == (p - 1) \div 4
                r == (p - 1) % 4
            IN  IF r = 0 THEN At(3 * g + 1) \div 4
                ELSE IF r = 1 THEN (At(3 * g + 1) % 4) * 16 + (At(3 * g + 2) \div 16)
                ELSE IF r = 2 THEN (At(3 * g + 2) % 16) * 4 + (At(3 * g + 3) \div 64)
                ELSE At(3 * g + 3) % 64
    IN  [p \in 1..(4 * groups) |->
            IF p > 4 * groups - pads THEN "=" ELSE B64Alphabet[Sextet(p) + 1]]

\* the number of "=" the encoding of b ends with
PadsOf(b) == (3 - (Len(b) % 3)) % 3

\* at most this many bytes follow the head of an image
MaxTail == 2

\* the values of the bytes that follow the head
TailValues == {0, 77, 255}

\* the head of an image that passes the size check: MinImageBytes bytes
HeadBytes == [i \in 1..MinImageBytes |-> (37 * i + 11) % 256]

\* the images: up to MaxTail bytes, alone or after the head
ImageBytes ==
    {h \o t : h \in {<< >>, HeadBytes}, t \in SeqUpTo(TailValues, MaxTail)}

\* the mime of the prefix: none, or image/jpeg
Mimes == { << >>, <<"i", "m", "a", "g", "e", "/", "j", "p", "e", "g">> }

\* the whitespace on the way: none; a line break after every 76 characters
\* and at the end (MIME); a space in front, a tab and a space in the middle
\* and CR LF at the end
WhitespaceForms == {"none", "lines", "mixed"}

\* s with the whitespace of form ws
WithWhitespace(s, ws) ==
    IF ws = "lines"
    THEN LET full == Len(s) \div 76
         IN  [i \in 1..(Len(s) + full) |->
                 IF i % 77 = 0 THEN "\n" ELSE s[i - (i \div 77)]]
             \o (IF Len(s) % 76 # 0 THEN <<"\n">> ELSE << >>)
    ELSE IF ws = "mixed"
    THEN LET h == Len(s) \div 2
         IN  <<" ">> \o Slice(s, 1, h) \o <<"\t", " ">> \o Slice(s, h + 1, Len(s))
                \o <<"\r", "\n">>
    ELSE s

\* "data:<mime>;base64,"
DataUriPrefix(mime) == <<"d", "a", "t", "a", ":">> \o mime \o Base64Marker

\* the payload the pipeline gets for a source
PayloadOf(src) ==
    LET enc  == B64Encode(src.bytes)
        kept == Slice(enc, 1, Len(enc) - src.strip - src.cut)
        body == WithWhitespace(kept, src.ws)
    IN  IF src.mime = << >> THEN body ELSE DataUriPrefix(src.mime) \o body

\* the sources: characters are cut only from an encoding that lost its padding
Sources ==
    { src \in [bytes : ImageBytes, strip : 0..2, cut : 0..2, mime : Mimes,
               ws : WhitespaceForms] :
        /\ src.strip <= PadsOf(src.bytes)
        /\ src.cut > 0 => src.strip = PadsOf(src.bytes)
        /\ src.strip + src.cut <= Len(B64Encode(src.bytes)) }

InitDecode ==
    /\ PipelineOff
    /\ JobIdle
    /\ RedisIdle
    /\ ProgressIdle
    /\ AuditIdle
    /\ img_source \in Sources
    /\ image_base64_data = PayloadOf(img_source)
    /\ decoded = NotDecoded

\* _process_single_image from the payload to the size check
DecodeImage ==
    /\ decoded = NotDecoded
    /\ phase = "off"
    /\ decoded' = DecodePayload(image_base64_data)
    /\ UNCHANGED <<img_source, image_base64_data>>
    /\ UNCHANGED beside_decode

NextDecode == DecodeImage

SpecDecode == InitDecode /\ [][NextDecode]_vars

(***************************************************************************)
(* The extraction of one or two images whose IDs meet in the file name or  *)
(* in the image_map: an ID and the same ID with '.png', an ID with a       *)
(* character the file name replaces by "_" and the ID that has "_" there,  *)
(* an upper-case extension, an ID that ends with a line break, and the     *)
(* same ID twice.  Every image decodes to at least 100 bytes.              *)
(***************************************************************************)

\* the IDs of these images
KeyIds ==
    { <<"a">>, <<"a", ".", "p", "n", "g">>, <<"a", "/", "b">>, <<"a", "_", "b">>, <<"a", ".", "P", "N", "G">>, <<"a", ".", "p", "n", "g", "\n">> }

\* the images
KeyPool == {[id |-> i, image_base64 |-> BigPayload] : i \in KeyIds}

\* the documents: one page that holds one image or two
KeyDocuments ==
    {<<Page(0, imgs)>> : imgs \in {q \in SeqUpTo(KeyPool, 2) : Len(q) > 0}}

InitKeys ==
    /\ OthersIdle
    /\ use_s3 \in BOOLEAN
    /\ enhance_images \in BOOLEAN
    /\ parallel_images \in 1..MaxParallel
    /\ filename = Filename
    /\ pages \in KeyDocuments
    /\ task = SubmitAll(pages)
    /\ image_map = << >>
    /\ pbar = 0
    /\ remote_objects = << >>
    /\ local_files = << >>
    /\ phase = "extract"
    /\ markdown_content = << >>
    /\ final_output_path = << >>

SpecKeys == InitKeys /\ [][NextExtract]_vars

(***************************************************************************)
(* RedisClient (src/clients/redis/client.py): set, get, delete, expire on  *)
(* a Redis server, with the JSON serialization of set and the JSON parse   *)
(* of get.                                                                 *)
(*                                                                         *)
(* A Python value is [t, v]: t = "str" with the characters, "int" with the *)
(* number, "list" with the sequence of items, "dict" with the sequence of  *)
(* [k, v] members in insertion order, "none" for None.  The JSON texts are *)
(* those of these values: no float, no escape in a string.                 *)
(***************************************************************************)

PyStr(chars) == [t |-> "str", v |-> chars]
PyInt(n) == [t |-> "int", v |-> n]
PyList(items) == [t |-> "list", v |-> items]
PyDict(members) == [t |-> "dict", v |-> members]
PyNone == [t |-> "none", v |-> 0]

\* the decimal digits
DigitChars == <<"0", "1", "2", "3", "4", "5", "6", "7", "8", "9">>

\* repr(n) of an int
RECURSIVE IntRepr(_)
IntRepr(n) ==
    IF n < 0 THEN <<"-">> \o IntRepr(0 - n)
    ELSE IF n < 10 THEN <<DigitChars[n + 1]>>
    ELSE IntRepr(n \div 10) \o <<DigitChars[(n % 10) + 1]>>

\* json.dumps(value, ensure_ascii=False): the separators are ", " and ": "
RECURSIVE JsonDumps(_)
RECURSIVE JsonDumpsItems(_, _)
RECURSIVE JsonDumpsMembers(_, _)
JsonDumps(value) ==
    IF value.t = "int" THEN IntRepr(value.v)
    ELSE IF value.t = "str" THEN <<"\"">> \o value.v \o <<"\"">>
    ELSE IF value.t = "list" THEN <<"[">> \o JsonDumpsItems(value.v, 1) \o <<"]">>
    ELSE IF value.t = "dict" THEN <<"{">> \o JsonDumpsMembers(value.v, 1) \o <<"}">>
    ELSE <<"n", "u", "l", "l">>
JsonDumpsItems(items, i) ==
    IF i > Len(items) THEN << >>
    ELSE (IF i > 1 THEN <<",", " ">> ELSE << >>)
            \o JsonDumps(items[i]) \o JsonDumpsItems(items, i + 1)
JsonDumpsMembers(members, i) ==
    IF i > Len(members) THEN << >>
    ELSE (IF i > 1 THEN <<",", " ">> ELSE << >>)
            \o <<"\"">> \o members[i].k \o <<"\"", ":", " ">>
            \o JsonDumps(members[i].v) \o JsonDumpsMembers(members, i + 1)

\* the position of the first character at i or later that is not JSON
\* whitespace, Len(s) + 1 when there is none
SkipJsonWs(s, i) ==
    IF \E j \in i..Len(s) : s[j] \notin Whitespace
    THEN CHOOSE j \in i..Len(s) :
            s[j] \notin Whitespace /\ \A k \in i..(j - 1) : s[k] \in Whitespace
    ELSE Len(s) + 1

\* the number a run of digits stands for
RECURSIVE DigitsValue(_)
DigitsValue(ds) ==
    IF Len(ds) = 0 THEN 0
    ELSE 10 * DigitsValue(SubSeq(ds, 1, Len(ds) - 1))
            + ((CHOOSE d \in 1..10 : DigitChars[d] = ds[Len(ds)]) - 1)

\* a parse that failed (json.JSONDecodeError)
JsonFail == [ok |-> FALSE, value |-> PyNone, next |-> 0]

\* the JSON scanner from position i: [ok, value, next] where next is the
\* position after the value
RECURSIVE JsonValueAt(_, _)
RECURSIVE JsonItemsAt(_, _, _)
RECURSIVE JsonMembersAt(_, _, _)
JsonValueAt(s, i) ==
    IF i > Len(s) THEN JsonFail
    ELSE IF s[i] = "\""
    THEN LET close == IndexFrom(s, "\"", i + 1)
         IN  IF close = 0 THEN JsonFail
             ELSE [ok |-> TRUE, value |-> PyStr(Slice(s, i + 1, close - 1)),
                   next |-> close + 1]
    ELSE IF s[i] = "[" THEN
         LET j == SkipJsonWs(s, i + 1)
         IN  IF j <= Len(s) /\ s[j] = "]"
             THEN [ok |-> TRUE, value |-> PyList(<< >>), next |-> j + 1]
             ELSE JsonItemsAt(s, j, << >>)
    ELSE IF s[i] = "{" THEN
         LET j == SkipJsonWs(s, i + 1)
         IN  IF j <= Len(s) /\ s[j] = "}"
             THEN [ok |-> TRUE, value |-> PyDict(<< >>), next |-> j + 1]
             ELSE JsonMembersAt(s, j, << >>)
    ELSE LET from   == IF s[i] = "-" THEN i + 1 ELSE i
             IsDigit(j) == \E d \in 1..10 : DigitChars[d] = s[j]
             stop   == IF \E j \in from..Len(s) : ~IsDigit(j)
                       THEN CHOOSE j \in from..Len(s) :
                               ~IsDigit(j) /\ \A k \in from..(j - 1) : IsDigit(k)
                       ELSE Len(s) + 1
             digits == Slice(s, from, stop - 1)
         IN  IF Len(digits) = 0 \/ (Len(digits) > 1 /\ digits[1] = "0") THEN JsonFail
             ELSE [ok |-> TRUE,
                   value |-> PyInt(IF from > i THEN 0 - DigitsValue(digits)
                                   ELSE DigitsValue(digits)),
                   next |-> stop]
JsonItemsAt(s, i, done) ==
    LET item == JsonValueAt(s, i)
        j    == SkipJsonWs(s, item.next)
    IN  IF ~item.ok \/ j > Len(s) THEN JsonFail
        ELSE IF s[j] = "]"
        THEN [ok |-> TRUE, value |-> PyList(Append(done, item.value)), next |-> j + 1]
        ELSE IF s[j] = ","
        THEN JsonItemsAt(s, SkipJsonWs(s, j + 1), Append(done, item.value))
        ELSE JsonFail
JsonMembersAt(s, i, done) ==
    LET key   == JsonValueAt(s, i)
        colon == IF key.ok THEN SkipJsonWs(s, key.next) ELSE 0
        item  == IF key.ok /\ key.value.t = "str" /\ colon <= Len(s) /\ s[colon] = ":"
                 THEN JsonValueAt(s, SkipJsonWs(s, colon + 1))
                 ELSE JsonFail
        j     == SkipJsonWs(s, item.next)
        more  == Append(done, [k |-> key.value.v, v |-> item.value])
    IN  IF ~item.ok \/ j > Len(s) THEN JsonFail
        ELSE IF s[j] = "}"
        THEN [ok |-> TRUE, value |-> PyDict(more), next |-> j + 1]
        ELSE IF s[j] = ","
        THEN JsonMembersAt(s, SkipJsonWs(s, j + 1), more)
        ELSE JsonFail

\* json.loads(s): one value, whitespace around it, nothing after it
JsonLoads(s) ==
    LET r == JsonValueAt(s, SkipJsonWs(s, 1))
    IN  IF r.ok /\ SkipJsonWs(s, r.next) > Len(s) THEN r ELSE JsonFail

\* what redis-py sends for a str or an int: the text, or repr(value)
RedisEncode(value) == IF value.t = "int" THEN IntRepr(value.v) ELSE value.v

\* RedisClient.set: what reaches the server for value: json.dumps for what is
\* not a str, int, float, bool or bytes, the value itself otherwise
SetValue(value) ==
    IF value.t \notin {"str", "int"} THEN JsonDumps(value) ELSE RedisEncode(value)

\* RedisClient.get for the text the server returned (decode_responses is on):
\* a text that starts with '{' or '[' is parsed, and kept when the parse fails
GetValue(value) ==
    IF Len(value) > 0 /\ value[1] \in {"{", "["}
    THEN LET parsed == JsonLoads(value)
         IN  IF parsed.ok THEN parsed.value ELSE PyStr(value)
    ELSE PyStr(value)

\* the keys
RedisKeys == { <<"k">>, <<"j">> }

\* the values given to set
RedisValues ==
    { PyStr(<<"s">>), PyStr(<<"4", "2">>), PyStr(<<"[", "1", ",", " ", "2", "]">>), PyStr(<<"[", "x">>),
      PyInt(42), PyInt(0 - 7),
      PyList(<< >>), PyList(<<PyInt(1), PyStr(<<"s">>)>>),
      PyDict(<<[k |-> <<"a">>, v |-> PyInt(1)],
               [k |-> <<"b">>, v |-> PyList(<<PyInt(2)>>)]>>) }

\* expiry times are at most this many seconds
MaxTtl == 2

\* f without the key k
Remove(f, k) == [x \in DOMAIN f \ {k} |-> f[x]]

InitRedis ==
    /\ PipelineOff
    /\ JobIdle
    /\ DecodeIdle
    /\ ProgressIdle
    /\ AuditIdle
    /\ redis_data = << >>
    /\ redis_sent = << >>
    /\ redis_reply = NoReply

\* RedisClient.set(key, value, ex=ex, nx=nx, xx=xx); ex = 0 stands for None
RedisSet(key, value, ex, nx, xx) ==
    /\ phase = "off"
    /\ ~(nx /\ xx)
    /\ LET applies == /\ nx => key \notin DOMAIN redis_data
                      /\ xx => key \in DOMAIN redis_data
       IN  /\ redis_data' = IF applies
                            THEN Put(redis_data, key,
                                     [value |-> SetValue(value),
                                      ttl |-> IF ex = 0 THEN 0 - 1 ELSE ex])
                            ELSE redis_data
           /\ redis_sent' = IF applies THEN Put(redis_sent, key, value) ELSE redis_sent
    /\ redis_reply' = NoReply
    /\ UNCHANGED beside_redis

\* RedisClient.get(key), default None
RedisGet(key) ==
    /\ phase = "off"
    /\ redis_reply' = [st |-> "got", key |-> key,
                       value |-> IF key \in DOMAIN redis_data
                                 THEN GetValue(redis_data[key].value)
                                 ELSE PyNone]
    /\ redis_reply' # redis_reply
    /\ UNCHANGED <<redis_data, redis_sent>>
    /\ UNCHANGED beside_redis

\* RedisClient.delete(key)
RedisDelete(key) ==
    /\ phase = "off"
    /\ key \in DOMAIN redis_data
    /\ redis_data' = Remove(redis_data, key)
    /\ redis_sent' = Remove(redis_sent, key)
    /\ redis_reply' = NoReply
    /\ UNCHANGED beside_redis

\* RedisClient.expire(key, time_seconds)
RedisExpire(key, time_seconds) ==
    /\ phase = "off"
    /\ key \in DOMAIN redis_data
    /\ redis_data' = [redis_data EXCEPT ![key].ttl = time_seconds]
    /\ redis_reply' = NoReply
    /\ UNCHANGED redis_sent
    /\ UNCHANGED beside_redis

\* a second passes on the server: the keys whose time is up are gone
RedisTick ==
    /\ phase = "off"
    /\ \E k \in DOMAIN redis_data : redis_data[k].ttl > 0
    /\ LET gone == {k \in DOMAIN redis_data : redis_data[k].ttl = 1}
       IN  /\ redis_data' = [k \in DOMAIN redis_data \ gone |->
                                IF redis_data[k].ttl > 0
                                THEN [redis_data[k] EXCEPT !.ttl = @ - 1]
                                ELSE redis_data[k]]
           /\ redis_sent' = [k \in DOMAIN redis_sent \ gone |-> redis_sent[k]]
    /\ redis_reply' = NoReply
    /\ UNCHANGED beside_redis

NextRedis ==
    \/ \E key \in RedisKeys, value \in RedisValues, ex \in 0..MaxTtl, nx, xx \in BOOLEAN :
          RedisSet(key, value, ex, nx, xx)
    \/ \E key \in RedisKeys : RedisGet(key)
    \/ \E key \in RedisKeys : RedisDelete(key)
    \/ \E key \in RedisKeys, time_seconds \in 1..MaxTtl : RedisExpire(key, time_seconds)
    \/ RedisTick

SpecRedis == InitRedis /\ [][NextRedis]_vars

(***************************************************************************)
(* update_progress of BaseTask (src/clients/celery/tasks.py) and of        *)
(* DatabaseAwareTask (src/clients/celery/base_tasks.py).                   *)
(***************************************************************************)

TaskClasses == {"BaseTask", "DatabaseAwareTask"}

\* the arguments given to update_progress
ProgressArgs == {0 - 2147483647, 0 - 1, 0, 20, 60, 100, 101, 2147483647}

Min(a, b) == IF a < b THEN a ELSE b
Max(a, b) == IF a > b THEN a ELSE b

\* Clamped without the upper limit
ClampedFromBelow(arg) == Max(0, arg)

\* max(0, min(progress, 100))
Clamped(arg) == Max(0, Min(arg, 100))

\* a task object after __init__; BaseTask reads celery.current_task,
\* DatabaseAwareTask updates its own state
InitProgress ==
    /\ PipelineOff
    /\ JobIdle
    /\ DecodeIdle
    /\ RedisIdle
    /\ AuditIdle
    /\ task_class \in TaskClasses
    /\ track_progress \in BOOLEAN
    /\ current_task \in BOOLEAN
    /\ progress = 0
    /\ progress_arg = NoProgressArg
    /\ published = {}
    /\ progress_log = {}

\* update_progress(arg, message); row_updated tells whether the write to
\* the TaskAuditLog row went through (the row exists, no database error)
UpdateProgress(arg, row_updated) ==
    /\ phase = "off"
    /\ task_class \in TaskClasses
    /\ progress' = Clamped(arg)
    /\ progress_arg' = [st |-> "called", arg |-> arg]
    /\ IF task_class = "BaseTask"
       THEN /\ published' = IF current_task /\ track_progress
                            THEN published \cup {progress'}
                            ELSE published
            /\ progress_log' = progress_log
       ELSE /\ published' = IF track_progress THEN published \cup {progress'} ELSE published
            /\ progress_log' = IF track_progress /\ row_updated
                               THEN progress_log \cup {progress'}
                               ELSE progress_log
    /\ <<progress, progress_arg, published, progress_log>>'
            # <<progress, progress_arg, published, progress_log>>
    /\ UNCHANGED <<task_class, track_progress, current_task>>
    /\ UNCHANGED beside_progress

NextProgress == \E arg \in ProgressArgs, row_updated \in BOOLEAN : UpdateProgress(arg, row_updated)

SpecProgress == InitProgress /\ [][NextProgress]_vars

(***************************************************************************)
(* The TaskAuditLog row of a submitted task: the API handler               *)
(* (src/task_api/routes.py) sends the task to the broker and then creates  *)
(* the row; the worker updates the row when the run starts, reports        *)
(* progress and returns (src/clients/celery/base_tasks.py).  The database  *)
(* answers every statement of the worker; the insert of the API can fail.  *)
(***************************************************************************)

\* the base classes of the tasks: the example tasks are declared with
\* base=DatabaseAwareTask, the PDF tasks with bind=True only
TaskBases == {"DatabaseAwareTask", "Task"}

\* the states a run can end in
TerminalStatuses == {"SUCCESS", "FAILURE"}

\* a run reports progress at most this many times
MaxReports == 2

\* update_task_log_on_start, update_task_log_status and
\* update_task_log_on_completion as the hooks of DatabaseAwareTask call them:
\* the row of the task gets the status when there is a row, and nothing
\* happens when get_task_log finds none, or when the task has the hooks of
\* celery.Task
RowAfterUpdate(id, new_status) ==
    IF task_base[id] = "DatabaseAwareTask" /\ audit_row[id] # "absent"
    THEN [audit_row EXCEPT ![id] = new_status]
    ELSE audit_row

InitAudit ==
    /\ PipelineOff
    /\ JobIdle
    /\ DecodeIdle
    /\ RedisIdle
    /\ ProgressIdle
    /\ AuditIdle

\* submit_task / submit_pdf_to_markdown: celery_app.send_task
SendTask(id, base) ==
    /\ phase = "off"
    /\ api_pc[id] = "idle"
    /\ api_pc' = [api_pc EXCEPT ![id] = "sent"]
    /\ task_base' = [task_base EXCEPT ![id] = base]
    /\ worker_pc' = [worker_pc EXCEPT ![id] = [st |-> "queued", reports |-> 0]]
    /\ UNCHANGED audit_row
    /\ UNCHANGED beside_audit

\* submit_task / submit_pdf_to_markdown: create_task_log and the response;
\* an error of the database is logged and the response is sent all the same
CreateTaskLog(id, created) ==
    /\ phase = "off"
    /\ api_pc[id] = "sent"
    /\ api_pc' = [api_pc EXCEPT ![id] = IF created THEN "logged" ELSE "not_logged"]
    /\ audit_row' = IF created THEN [audit_row EXCEPT ![id] = "PENDING"] ELSE audit_row
    /\ UNCHANGED <<worker_pc, task_base>>
    /\ UNCHANGED beside_audit

\* the worker takes the message: DatabaseAwareTask.__call__
WorkerStart(id) ==
    /\ phase = "off"
    /\ worker_pc[id].st = "queued"
    /\ worker_pc' = [worker_pc EXCEPT ![id].st = "running"]
    /\ audit_row' = RowAfterUpdate(id, "STARTED")
    /\ UNCHANGED <<api_pc, task_base>>
    /\ UNCHANGED beside_audit

\* the run reports progress: DatabaseAwareTask.update_progress, or
\* self.update_state alone in the PDF tasks
WorkerProgress(id) ==
    /\ phase = "off"
    /\ worker_pc[id].st = "running"
    /\ worker_pc[id].reports < MaxReports
    /\ worker_pc' = [worker_pc EXCEPT ![id].reports = @ + 1]
    /\ audit_row' = RowAfterUpdate(id, "PROGRESS")
    /\ UNCHANGED <<api_pc, task_base>>
    /\ UNCHANGED beside_audit

\* the run returns or raises: DatabaseAwareTask.after_return
WorkerReturn(id, status) ==
    /\ phase = "off"
    /\ worker_pc[id].st = "running"
    /\ worker_pc' = [worker_pc EXCEPT ![id].st = status]
    /\ audit_row' = RowAfterUpdate(id, status)
    /\ UNCHANGED <<api_pc, task_base>>
    /\ UNCHANGED beside_audit

NextAudit ==
    \/ \E id \in SubmittedTasks, base \in TaskBases : SendTask(id, base)
    \/ \E id \in SubmittedTasks, created \in BOOLEAN : CreateTaskLog(id, created)
    \/ \E id \in SubmittedTasks : WorkerStart(id)
    \/ \E id \in SubmittedTasks : WorkerProgress(id)
    \/ \E id \in SubmittedTasks, status \in TerminalStatuses : WorkerReturn(id, status)

\* the handler and the worker run to their end
SpecAudit == InitAudit /\ [][NextAudit]_vars /\ WF_vars(NextAudit)

(***************************************************************************)
(* transcribe_pdf_url_to_md_task and transcribe_pdf_to_md_task             *)
(* (src/clients/celery/pdf_processing_tasks.py): the conversion runs with  *)
(* use_s3=True and a temporary directory as output_dir; the task checks    *)
(* what the conversion returned, and removes the directory in its finally  *)
(* block.                                                                  *)
(***************************************************************************)

\* the documents the task converts: one page with one or two images that
\* decode to at least 100 bytes
JobDocuments ==
    {<<Page(0, imgs)>> : imgs \in {q \in SeqUpTo(ResolvePool, 2) : Len(q) > 0}}

\* MarkMuse(..., use_s3=True, ...), output_dir=temp_markmuse_output_dir
InitJob ==
    /\ OthersIdle
    /\ use_s3 = TRUE
    /\ enhance_images \in BOOLEAN
    /\ parallel_images \in 1..MaxParallel
    /\ filename = Filename
    /\ pages \in JobDocuments
    /\ task = SubmitAll(pages)
    /\ image_map = << >>
    /\ pbar = 0
    /\ remote_objects = << >>
    /\ local_files = << >>
    /\ phase = "extract"
    /\ markdown_content = << >>
    /\ final_output_path = << >>

\* markdown_s3_url.startswith(('s3://', 'http://', 'https://')); "h://" is
\* the scheme of PublicUrl
IsRemoteUrl(s) ==
    \E scheme \in { <<"s", "3", ":", "/", "/">>, <<"h", ":", "/", "/">>,
                    <<"h", "t", "t", "p", ":", "/", "/">>,
                    <<"h", "t", "t", "p", "s", ":", "/", "/">> } :
        Len(s) >= Len(scheme) /\ SubSeq(s, 1, Len(scheme)) = scheme

\* md_s3_key = f"{output_filename_stem}/{md_filename}"
ManualKey(path) == filename \o <<"/">> \o LastSegment(path)

\* the path is inside the directory dir
UnderDir(path, dir) ==
    /\ Len(path) > Len(dir)
    /\ SubSeq(path, 1, Len(dir)) = dir
    /\ path[Len(dir) + 1] = "/"

\* shutil.rmtree(dir): the files that are left
RemoveTree(files, dir) ==
    [x \in {y \in DOMAIN files : ~UnderDir(y, dir)} |-> files[x]]

\* the task after convert_pdf_to_md: the URL is returned as it is; a local
\* path of an existing file is uploaded by hand; anything else raises
TaskFinish ==
    /\ phase = "done"
    /\ \E up \in UploadFileOutcomes :
          IF IsRemoteUrl(final_output_path)
          THEN /\ task_result' = [st |-> "returned", url |-> final_output_path]
               /\ UNCHANGED remote_objects
          ELSE IF final_output_path \in DOMAIN local_files /\ up = "url"
          THEN /\ task_result' = [st |-> "returned",
                                  url |-> PublicUrl(ManualKey(final_output_path))]
               /\ remote_objects' = Put(remote_objects,
                                        PublicUrl(ManualKey(final_output_path)), 0)
          ELSE /\ task_result' = [st |-> "raised", url |-> << >>]
               /\ UNCHANGED remote_objects
    /\ phase' = "task_end"
    /\ UNCHANGED <<use_s3, enhance_images, parallel_images, filename, pages, task, image_map,
                   pbar, local_files, markdown_content, final_output_path>>
    /\ UNCHANGED beside_job

\* the finally block: shutil.rmtree(temp_markmuse_output_dir)
TaskCleanup ==
    /\ phase = "task_end"
    /\ local_files' = RemoveTree(local_files, OutputDir)
    /\ phase' = "cleaned"
    /\ UNCHANGED <<use_s3, enhance_images, parallel_images, filename, pages, task, image_map,
                   pbar, remote_objects, markdown_content, final_output_path>>
    /\ UNCHANGED task_result
    /\ UNCHANGED beside_job

NextJob ==
    \/ \E t \in Tasks : StartTask(t)
    \/ \E t \in Tasks : StoreImage(t)
    \/ \E t \in Tasks : DescribeImage(t)
    \/ \E t \in Tasks : Collect(t)
    \/ Resolve
    \/ WriteMarkdown
    \/ TaskFinish
    \/ TaskCleanup

SpecJob == InitJob /\ [][NextJob]_vars

(***************************************************************************)
(* Properties of the conversion.                                           *)
(***************************************************************************)

\* the run of _process_single_image for task t has returned
Returned(t) == task[t].st \in {"done", "collected"}

\* the bytes a record points at were stored before the record was built
Persisted(rec) ==
    IF rec.is_s3 THEN rec.path \in DOMAIN remote_objects
    ELSE rec.path \in DOMAIN local_files

\* the references of the pages as the OCR gave them, and of the document
OriginalRefs == FindAllRefs(JoinPages(PageMarkdowns))
FinalRefs == FindAllRefs(markdown_content)

\* the keys under which the result of task t is inserted
KeysOf(t) ==
    {Img(t).id} \cup
    (IF ~HasExtension(Img(t).id, SaveExtensions) THEN {Img(t).id \o DotPng} ELSE {})

\* no two images of the batch are inserted under a common key
NoKeyCollision ==
    \A t, u \in Tasks : t # u => KeysOf(t) \cap KeysOf(u) = {}

\* C1: in remote mode, an image of at least 100 decoded bytes whose upload
\* failed (no URL returned, or an error raised) and whose local write did not
\* fail has a record with its local path, not marked is_s3, and its file is
\* in the local images directory.
C1_RemoteFailureFallsBack ==
    \A t \in Tasks :
        ( /\ Returned(t)
          /\ use_s3
          /\ Decodable(Img(t).image_base64)
          /\ task[t].upload \in {"none", "raise"}
          /\ task[t].write # "raise" )
        => /\ task[t].result.ok
           /\ ~task[t].result.img_data.is_s3
           /\ task[t].result.img_data.path
                 = ImagePath(ImagesDir(OutputDir, filename), Img(t).id)
           /\ task[t].result.img_data.path \in DOMAIN local_files

\* C2: store-then-link.  Every record a task returned and every record of the
\* image_map points at bytes already stored (an uploaded object for is_s3, a
\* written file otherwise); and every link of the document text whose target
\* differs from the OCR's is the locator of the stored record the OCR's
\* target resolves to.  The links are read when the resolver has returned the
\* text: the write that follows leaves markdown_content as it is.
C2_StoreThenLink ==
    /\ \A t \in Tasks : task[t].result.ok => Persisted(task[t].result.img_data)
    /\ \A t \in Tasks : task[t].st = "stored" =>
          Persisted([path |-> IF task[t].img_url # << >> THEN task[t].img_url
                              ELSE task[t].img_path,
                     is_s3 |-> task[t].img_url # << >>, description |-> << >>])
    /\ \A k \in DOMAIN image_map : Persisted(image_map[k])
    /\ phase = "resolved" =>
          LET final == FinalRefs
              original == OriginalRefs
          IN  /\ Len(final) = Len(original)
              /\ \A i \in 1..Len(final) :
                    final[i][2] # original[i][2] =>
                       LET look == LookupKey(RefImageId(original[i][2]), DOMAIN image_map)
                       IN  /\ look.found
                           /\ Persisted(image_map[look.key])
                           /\ final[i][2] = Locator(image_map[look.key], OutputDir)

\* C2 witness: a document with a link rewritten to a stored record's locator,
\* from a batch in which another image's store failed
C2_Witness ==
    /\ phase = "resolved"
    /\ \E i \in 1..Len(FinalRefs) : FinalRefs[i][2] # OriginalRefs[i][2]
    /\ \E t \in Tasks : Decodable(Img(t).image_base64) /\ ~task[t].result.ok

\* the result task t must have, from its own image and its own outcomes
OwnResult(t) ==
    LET r == StoreStep(Img(t), use_s3, task[t].upload, task[t].write)
    IN  IF r.st = "done" THEN NoResult
        ELSE BuildResult(Img(t).id, r.img_url, r.img_path,
                         IF task[t].describe = "text" THEN DescriptionText ELSE << >>)

Accounted ==
    /\ pbar = Len(task)
    /\ \A t \in Tasks :
          /\ task[t].runs = 1
          /\ task[t].st = "collected"
          /\ task[t].result.ok =>
                /\ Img(t).id \in DOMAIN image_map
                /\ image_map[Img(t).id] = task[t].result.img_data
    /\ \A t, u \in Tasks :
          (t # u /\ task[t].result.ok /\ task[u].result.ok) => Img(t).id # Img(u).id
    /\ \A k \in DOMAIN image_map : \E t \in Tasks : task[t].result.ok /\ k \in KeysOf(t)

ReportedFailures == {}

\* C5: when the conversion succeeds, every image that failed decoding or
\* storing is among the failures the result reports.
C5_FailuresReported ==
    (phase = "done" /\ final_output_path # << >>) =>
        \A t \in Tasks : ~task[t].result.ok => t \in ReportedFailures

\* C6: at every moment the number of images being processed by worker
\* threads is at most parallel_images.
C6_BoundedParallelism == Cardinality(Running) <= parallel_images

\* C6 witness: every worker is busy while an image waits in the queue
C6_Witness ==
    /\ Cardinality(Running) = parallel_images
    /\ \E t \in Tasks : task[t].st = "queued"

\* C7: full barrier.  Once the main thread has left the extraction, every
\* task has been collected, and from then on no step changes a task or the
\* image_map.
C7_Barrier ==
    /\ [](phase # "extract" => \A t \in Tasks : task[t].st = "collected")
    /\ [][phase # "extract" => (task' = task /\ image_map' = image_map)]_vars

\* C7 witness: the resolver has run on the map of a batch of two images
C7_Witness ==
    /\ phase = "resolved"
    /\ Len(task) = 2
    /\ image_map # << >>

\* C8: every reference that resolves to a record without description has, in
\* the document, its target replaced by the record's locator and its alt text
\* kept, with enhancement disabled and with enhancement enabled.
C8_PlainLinkRewritten ==
    phase \in {"resolved", "done"} =>
        /\ Len(FinalRefs) = Len(OriginalRefs)
        /\ \A i \in 1..Len(OriginalRefs) :
              LET look == LookupKey(RefImageId(OriginalRefs[i][2]), DOMAIN image_map)
              IN  (look.found /\ image_map[look.key].description = << >>)
                     => FinalRefs[i] = << OriginalRefs[i][1],
                                          Locator(image_map[look.key], OutputDir) >>

\* the record a link target resolves to in image_map: [found, key]
Resolved(url) == LookupKey(RefImageId(url), DOMAIN image_map)

\* the text that stands for one reference once it is rewritten: the link to
\* the record's locator under the same alt text, followed by the description
\* block when the record has a description
RewrittenRef(alt, url) ==
    LET rec == image_map[Resolved(url).key]
    IN  IF rec.description # << >>
        THEN EnhancedRef(alt, Locator(rec, OutputDir), rec.description)
        ELSE ImageRef(alt, Locator(rec, OutputDir))

\* the text s from position i with every reference replaced by its rewritten
\* form and every other character kept
RECURSIVE RoundTripFrom(_, _)
RoundTripFrom(s, i) ==
    LET j == NextMatch(s, i)
    IN  IF j = 0 THEN Slice(s, i, Len(s))
        ELSE LET m == MatchAt(s, j)
             IN  Slice(s, i, j - 1) \o RewrittenRef(m.alt, m.url)
                    \o RoundTripFrom(s, m.stop + 1)

\* the pages hold N >= 1 references, to N different records of image_map
RefsToRecords ==
    LET original == OriginalRefs
    IN  /\ Len(original) > 0
        /\ \A i \in 1..Len(original) : Resolved(original[i][2]).found
        /\ \A i, j \in 1..Len(original) :
              i # j => image_map[Resolved(original[i][2]).key]
                          # image_map[Resolved(original[j][2]).key]

\* C9: when the pages hold N references to N records of the map (by the ID,
\* with and without extension, or under a directory), the resolved text is
\* the input text with exactly those N references rewritten to their
\* records' locators and every character outside them unchanged.
C9_RoundTrip ==
    (phase = "resolved" /\ RefsToRecords)
       => markdown_content = RoundTripFrom(JoinPages(PageMarkdowns), 1)

\* the round trip of C9 for the references the resolver does rewrite:
\* enhancement disabled, or every referenced record described
RoundTripWhereRewritten ==
    ( /\ phase = "resolved"
      /\ RefsToRecords
      /\ \/ ~enhance_images
         \/ \A i \in 1..Len(OriginalRefs) :
               image_map[Resolved(OriginalRefs[i][2]).key].description # << >> )
       => markdown_content = RoundTripFrom(JoinPages(PageMarkdowns), 1)

\* the locators of the records of image_map
Locators == {Locator(image_map[k], OutputDir) : k \in DOMAIN image_map}

\* the image IDs of the document
ImageIds == {Img(t).id : t \in Tasks}

\* original IDs and final locators are disjoint namespaces
DisjointNamespaces == Locators \cap (ImageIds \cup DOMAIN image_map) = {}

\* the text holds references, and all of them point to final locators
AlreadyRewritten ==
    LET final == FinalRefs
    IN  /\ Len(final) > 0
        /\ \A i \in 1..Len(final) : final[i][2] \in Locators

\* C10: a second run of the resolver, with the same image_map, on a text
\* whose links already point to final locators leaves the text unchanged (no
\* second rewrite, no second description block), when IDs and locators are
\* disjoint namespaces.
C10_ResolveIdempotent ==
    [][ ( /\ phase = "resolved"
          /\ phase' = "resolved2"
          /\ DisjointNamespaces
          /\ AlreadyRewritten )
        => markdown_content' = markdown_content ]_vars

\* the second run of C10 with enhancement disabled: the links are rewritten
\* to the locators they already hold
PlainResolveIdempotent ==
    [][ ( /\ phase = "resolved"
          /\ phase' = "resolved2"
          /\ ~enhance_images
          /\ DisjointNamespaces
          /\ AlreadyRewritten )
        => markdown_content' = markdown_content ]_vars

\* the text one match is replaced by when it is processed on its own: the
\* link to the locator with the description block for a described record,
\* the link to the locator for a record without description when enhancement
\* is disabled, the match itself otherwise
IndependentRef(alt, url, whole) ==
    IF ~Resolved(url).found THEN whole
    ELSE LET rec == image_map[Resolved(url).key]
         IN  IF rec.description # << >>
             THEN EnhancedRef(alt, Locator(rec, OutputDir), rec.description)
             ELSE IF enhance_images THEN whole
             ELSE ImageRef(alt, Locator(rec, OutputDir))

\* the text s from position i with every match replaced on its own, in one
\* pass from left to right that never looks at a replacement again
RECURSIVE IndependentFrom(_, _)
IndependentFrom(s, i) ==
    LET j == NextMatch(s, i)
    IN  IF j = 0 THEN Slice(s, i, Len(s))
        ELSE LET m == MatchAt(s, j)
             IN  Slice(s, i, j - 1)
                    \o IndependentRef(m.alt, m.url, Slice(s, j, m.stop))
                    \o IndependentFrom(s, m.stop + 1)

\* C11: the resolved text is the page text with each match replaced on its
\* own: the replacement written for one match is not matched or modified
\* again while a later match of the page is processed, with enhancement
\* enabled and disabled.
C11_MatchesIndependent ==
    phase = "resolved"
       => markdown_content = IndependentFrom(JoinPages(PageMarkdowns), 1)

\* the statement of C11 for the single re.sub pass of the mode without
\* enhancement
PlainMatchesIndependent ==
    (phase = "resolved" /\ ~enhance_images)
       => markdown_content = IndependentFrom(JoinPages(PageMarkdowns), 1)

\* C12: a reference whose target resolves to no entry of image_map (neither
\* its ID nor the ID with a candidate extension is a key) stands in the
\* resolved text as it stood in the page, and the resolution completes.
C12_UnresolvedUnchanged ==
    phase = "resolved" =>
        LET final == FinalRefs
            original == OriginalRefs
        IN  /\ Len(final) = Len(original)
            /\ \A i \in 1..Len(original) :
                  ~Resolved(original[i][2]).found => final[i] = original[i]

\* C12 witness: a resolved text that holds an unresolved reference next to a
\* reference that was rewritten
C12_Witness ==
    /\ phase = "resolved"
    /\ \E i, j \in 1..Len(OriginalRefs) :
          /\ ~Resolved(OriginalRefs[i][2]).found
          /\ FinalRefs[i] = OriginalRefs[i]
          /\ Resolved(OriginalRefs[j][2]).found
          /\ FinalRefs[j] # OriginalRefs[j]

\* the key a link target is to be looked up under, as a sequence of at most
\* one key: the trailing path segment if it is a key; else, for a segment
\* without a known image extension, the segment with the first of '.png',
\* '.jpg', '.jpeg', '.gif', '.webp' that makes a key
ExpectedKey(url) ==
    LET slashes == {i \in 1..Len(url) : url[i] = "/"}
        id == IF slashes = {} THEN url
              ELSE SubSeq(url, SetMax(slashes) + 1, Len(url))
        keys == DOMAIN image_map
        present == {c \in 1..Len(CandidateExtensions) :
                       (id \o CandidateExtensions[c]) \in keys}
    IN  IF id \in keys THEN << id >>
        ELSE IF ~HasExtension(id, LinkExtensions) /\ present # {}
             THEN << id \o CandidateExtensions[SetMin(present)] >>
        ELSE << >>

\* C13: the record a reference is rewritten from is the one found under the
\* trailing path segment of its target: the exact ID if it is a key, else
\* (only for an ID without a known image extension) the first of ID+'.png',
\* '.jpg', '.jpeg', '.gif', '.webp' that is a key; with enhancement enabled
\* and disabled.  A reference is rewritten to no other record, and is
\* rewritten to that record whenever the mode rewrites it.
C13_LookupOrder ==
    phase = "resolved" =>
        LET final == FinalRefs
            original == OriginalRefs
        IN  /\ Len(final) = Len(original)
            /\ \A i \in 1..Len(original) :
                  LET key == ExpectedKey(original[i][2])
                  IN  /\ final[i][2] # original[i][2] =>
                         /\ key # << >>
                         /\ final[i][2] = Locator(image_map[key[1]], OutputDir)
                      /\ ( /\ key # << >>
                           /\ \/ ~enhance_images
                              \/ image_map[key[1]].description # << >> )
                         => final[i][2] = Locator(image_map[key[1]], OutputDir)

\* C13 witness: with "b.png" and "b.jpg" both keys, a reference to "b" was
\* rewritten to the record of "b.png", next to a reference found under the
\* last segment of its target
C13_Witness ==
    /\ phase = "resolved"
    /\ {<<"b", ".", "p", "n", "g">>, <<"b", ".", "j", "p", "g">>} \subseteq DOMAIN image_map
    /\ \E i, j \in 1..Len(OriginalRefs) :
          /\ OriginalRefs[i][2] = <<"b">>
          /\ FinalRefs[i][2] = Locator(image_map[<<"b", ".", "p", "n", "g">>], OutputDir)
          /\ OriginalRefs[j][2] = <<"p", "/", "a">>
          /\ FinalRefs[j][2] = Locator(image_map[<<"a">>], OutputDir)

\* the positions of s at which sub occurs
Occurrences(s, sub) == {i \in 1..Len(s) : StartsWithAt(s, i, sub)}

\* the references of the page that resolve to a record with a description
DescribedRefs ==
    {i \in 1..Len(OriginalRefs) :
        /\ Resolved(OriginalRefs[i][2]).found
        /\ image_map[Resolved(OriginalRefs[i][2]).key].description # << >>}

\* C14: every reference that resolves to a record with description d stands
\* in the resolved text as the link to the locator under the same alt text,
\* a blank line, the labelled description line and a newline; and the text
\* holds one description block per such reference occurrence.
C14_EnhancedFormat ==
    phase = "resolved" =>
        /\ \A i \in DescribedRefs :
              LET rec == image_map[Resolved(OriginalRefs[i][2]).key]
              IN  Occurrences(markdown_content,
                              ImageRef(OriginalRefs[i][1], Locator(rec, OutputDir))
                                 \o <<"\n", "\n">> \o Tail(Tail(DescriptionLabel))
                                 \o rec.description \o <<"\n">>) # {}
        /\ Cardinality(Occurrences(markdown_content, DescriptionLabel))
              = Cardinality(DescribedRefs)

\* the statement of C14 for pages none of whose references already holds a
\* locator as its target
EnhancedFormatFreshTargets ==
    (phase = "resolved" /\ \A i \in 1..Len(OriginalRefs) : OriginalRefs[i][2] \notin Locators)
       => /\ \A i \in DescribedRefs :
                LET rec == image_map[Resolved(OriginalRefs[i][2]).key]
                IN  Occurrences(markdown_content,
                                EnhancedRef(OriginalRefs[i][1], Locator(rec, OutputDir),
                                            rec.description)) # {}
          /\ Cardinality(Occurrences(markdown_content, DescriptionLabel))
                = Cardinality(DescribedRefs)

\* C15: a rewritten link target is the stored URL, character for character,
\* for a record marked is_s3; for a local record it is a relative path,
\* written with '/' only, that leads from the output directory to the stored
\* file.
C15_LocatorFormat ==
    phase = "resolved" =>
        LET final == FinalRefs
            original == OriginalRefs
        IN  \A i \in 1..Len(original) :
               final[i][2] # original[i][2] =>
                  LET rec == image_map[Resolved(original[i][2]).key]
                  IN  IF rec.is_s3
                      THEN /\ final[i][2] = rec.path
                           /\ rec.path \in DOMAIN remote_objects
                      ELSE /\ PathJoin(OutputDir, final[i][2]) = rec.path
                           /\ final[i][2][1] # "/"
                           /\ \A c \in 1..Len(final[i][2]) : final[i][2][c] # "\\"

\* C15 witness: under a filename with a directory part, a reference was
\* rewritten to the relative path of a local record
C15_Witness ==
    /\ phase = "resolved"
    /\ filename # Filename
    /\ \E i \in 1..Len(OriginalRefs) :
          /\ FinalRefs[i][2] # OriginalRefs[i][2]
          /\ ~image_map[Resolved(OriginalRefs[i][2]).key].is_s3
          /\ FinalRefs[i][2] = <<"p", "/", "f", "_", "i", "m", "a", "g", "e", "s",
                               "/", "a", ".", "p", "n", "g">>

\* os.path.dirname(path): the path without its last segment
Dirname(path) ==
    LET slashes == {i \in 1..Len(path) : path[i] = "/"}
    IN  IF slashes = {} THEN << >> ELSE SubSeq(path, 1, SetMax(slashes) - 1)

\* C16: once the document is written, every link that was rewritten to a
\* locally stored image is a path that leads from the directory of the
\* document file to the stored file, for plain output filenames and for
\* filenames with a directory part.
C16_LinkRelativeToDocument ==
    (phase = "done" /\ OutputFile(OutputDir, filename) \in DOMAIN local_files) =>
        LET final == FinalRefs
            original == OriginalRefs
        IN  \A i \in 1..Len(original) :
               ( /\ final[i][2] # original[i][2]
                 /\ ~image_map[Resolved(original[i][2]).key].is_s3 )
               => PathJoin(Dirname(OutputFile(OutputDir, filename)), final[i][2])
                     = image_map[Resolved(original[i][2]).key].path

\* the statement of C16 for output filenames without a directory part
PlainNameLinkRelativeToDocument ==
    ( /\ phase = "done"
      /\ OutputFile(OutputDir, filename) \in DOMAIN local_files
      /\ \A c \in 1..Len(filename) : filename[c] # "/" ) =>
        LET final == FinalRefs
            original == OriginalRefs
        IN  \A i \in 1..Len(original) :
               ( /\ final[i][2] # original[i][2]
                 /\ ~image_map[Resolved(original[i][2]).key].is_s3 )
               => PathJoin(Dirname(OutputFile(OutputDir, filename)), final[i][2])
                     = image_map[Resolved(original[i][2]).key].path

\* the texts of the pages ps, each with its matches replaced on its own, in
\* ascending order of page index, with one blank line between two pages
RECURSIVE AssembleByIndex(_)
AssembleByIndex(ps) ==
    IF ps = {} THEN << >>
    ELSE LET first == CHOOSE p \in ps : \A q \in ps : p.index <= q.index
             text == IndependentFrom(first.markdown, 1)
         IN  IF ps = {first} THEN text
             ELSE text \o <<"\n", "\n">> \o AssembleByIndex(ps \ {first})

\* the pages of the response, as a set
HeldPages == {pages[i] : i \in 1..Len(pages)}

\* C17: the document is the text of the pages in ascending order of page
\* index, with exactly one blank line between two pages, in whatever order
\* the response holds the pages.
C17_PagesInIndexOrder ==
    phase \in {"resolved", "done"} => markdown_content = AssembleByIndex(HeldPages)

\* the statement of C17 for responses that hold their pages in ascending
\* order of index
HeldOrderAssembly ==
    ( /\ phase \in {"resolved", "done"}
      /\ \A i, j \in 1..Len(pages) : i < j => pages[i].index < pages[j].index )
       => markdown_content = AssembleByIndex(HeldPages)

\* the document is persisted: its file is written, or its object uploaded
DocumentPersisted ==
    \/ OutputFile(OutputDir, filename) \in DOMAIN local_files
    \/ PublicUrl(filename \o <<"/">> \o filename \o <<".", "m", "d">>)
          \in DOMAIN remote_objects

\* C18: when the conversion returns, it returns a non-empty locator if and
\* only if the document was persisted: it does not report failure (the
\* empty string) while a persisted document is left behind, also when the
\* upload of the document fails after its local write succeeded.
C18_NoPartialSuccess ==
    phase = "done" => (final_output_path # << >> <=> DocumentPersisted)

\* the statement of C18 for conversions without a remote store
LocalNoPartialSuccess ==
    (phase = "done" /\ ~use_s3) => (final_output_path # << >> <=> DocumentPersisted)

\* C19: a task whose describer raised or returned no text still returns its
\* image's record, with the locator of the stored bytes and without a
\* description; and the describer is called only when enhancement is enabled
\* (which, after construction, implies an LLM client).
C19_DescribeNonFatal ==
    \A t \in Tasks :
        Returned(t) =>
           /\ task[t].describe \in {"raise", "empty"} =>
                 /\ task[t].result.ok
                 /\ task[t].result.img_id = Img(t).id
                 /\ task[t].result.img_data.description = << >>
                 /\ task[t].result.img_data.path
                       = IF task[t].upload = "url" THEN task[t].img_url
                         ELSE task[t].img_path
                 /\ task[t].result.img_data.path # << >>
                 /\ Persisted(task[t].result.img_data)
           /\ task[t].describe # "skip" => enhance_images

\* C19 witness: a collected task whose describer raised and whose record is
\* in image_map without description
C19_Witness ==
    \E t \in Tasks :
        /\ task[t].st = "collected"
        /\ task[t].describe = "raise"
        /\ task[t].result.ok
        /\ Img(t).id \in DOMAIN image_map
        /\ image_map[Img(t).id].description = << >>

\* task t made a store call: its bytes are in a store, or an upload or a
\* local write was attempted for it
StoreCalled(t) ==
    \/ task[t].upload # "skip"
    \/ task[t].write # "skip"
    \/ \E k \in DOMAIN remote_objects : remote_objects[k] = t
    \/ \E k \in DOMAIN local_files : local_files[k] = t

\* C20: an image whose payload decodes to fewer than 100 bytes has no store
\* call and returns no record, and (unless another, larger image has the
\* same keys) neither its ID nor its '.png' alias is a key of image_map; an
\* image of exactly 100 bytes is accepted: it returns a record unless its
\* store failed.
C20_TooSmallSkipped ==
    \A t \in Tasks :
        LET size == DecodedLen(Img(t).image_base64)
        IN  /\ size < 100 =>
                 /\ ~StoreCalled(t)
                 /\ ~task[t].result.ok
                 /\ (\A u \in Tasks : KeysOf(u) \cap KeysOf(t) # {}
                                         => DecodedLen(Img(u).image_base64) < 100)
                       => KeysOf(t) \cap DOMAIN image_map = {}
            /\ ( /\ size = 100
                 /\ Returned(t)
                 /\ task[t].upload # "raise"
                 /\ task[t].write # "raise" )
               => /\ task[t].result.ok
                  /\ StoreCalled(t)

\* C20 witness: the extraction is complete; an image of 99 bytes was skipped
\* and an image of exactly 100 bytes of the same batch is in image_map
C20_Witness ==
    /\ ExtractionComplete
    /\ \E t, u \in Tasks :
          /\ DecodedLen(Img(t).image_base64) = 99
          /\ task[t].st = "collected"
          /\ KeysOf(t) \cap DOMAIN image_map = {}
          /\ DecodedLen(Img(u).image_base64) = 100
          /\ Img(u).id \in DOMAIN image_map


\* the characters of the body that reach the decoder, whitespace apart
SentLen == Len(B64Encode(img_source.bytes)) - img_source.strip - img_source.cut

\* the number of "=" the body lacks to reach a length that is a multiple of 4
MissingPadding == (4 - (SentLen % 4)) % 4

\* the bytes the characters of the body still carry: all of them unless
\* characters were cut
SentBytes ==
    LET d == Len(B64Encode(img_source.bytes)) - PadsOf(img_source.bytes) - img_source.cut
    IN  Slice(img_source.bytes, 1,
              3 * (d \div 4) + (IF d % 4 = 0 THEN 0 ELSE (d % 4) - 1))

\* the payload was decoded to bytes (the size check apart)
DecodeSucceeded == decoded.st \in {"ok", "too_small"}

\* C21 as stated: a payload whose body lacks 1, 2 or 3 "=" to a multiple of 4
\* decodes after the repair pass, to the bytes of the padded body, in at most
\* two attempts.
C21_RepairSucceeds ==
    (decoded # NotDecoded /\ MissingPadding \in 1..3) =>
        /\ DecodeSucceeded
        /\ decoded.img_data = SentBytes
        /\ decoded.attempts <= 2

\* C21: a payload whose body (base64 characters and "=" only, whitespace
\* apart) lacks 1 or 2 "=" decodes in the repair pass, the second attempt, to
\* the bytes of the padded body; and no payload gets more than two attempts.
C21_RepairOneOrTwo ==
    decoded # NotDecoded =>
        /\ decoded.attempts <= 2
        /\ MissingPadding \in 1..2 =>
              /\ DecodeSucceeded
              /\ decoded.img_data = SentBytes
              /\ decoded.attempts = 2

\* C21 witness: an image of at least 100 bytes whose encoding lost both "=",
\* sent with a prefix and line breaks, was decoded in the second attempt
C21_Witness ==
    /\ decoded # NotDecoded
    /\ decoded.st = "ok"
    /\ decoded.attempts = 2
    /\ img_source.strip = 2
    /\ img_source.ws = "lines"
    /\ img_source.mime # << >>
    /\ decoded.img_data = img_source.bytes

\* C22: an image of at least 100 bytes whose encoding arrives whole (with or
\* without its padding) is decoded to its bytes, with and without a prefix,
\* with and without whitespace; the content type is the prefix's mime, or
\* image/png without a prefix.
C22_PrefixAndWhitespace ==
    (decoded # NotDecoded /\ img_source.cut = 0
        /\ Len(img_source.bytes) >= MinImageBytes) =>
        /\ decoded.st = "ok"
        /\ decoded.img_data = img_source.bytes
        /\ decoded.content_type = IF img_source.mime # << >> THEN img_source.mime
                                  ELSE DefaultContentType

\* C22 witness: an image of 101 bytes sent with the image/jpeg prefix and
\* mixed whitespace was decoded with content type image/jpeg
C22_Witness ==
    /\ decoded # NotDecoded
    /\ decoded.st = "ok"
    /\ Len(decoded.img_data) = MinImageBytes + 1
    /\ img_source.mime # << >>
    /\ decoded.content_type = img_source.mime
    /\ img_source.ws = "mixed"


\* the name ends with one of the recognized image extensions, in any case
EndsWithImageExtension(name) == \E e \in SaveExtensions : EndsWith(Lower(name), e)

\* img_id with every character of UnsafeChars replaced by "_"
Sanitized(img_id) ==
    [i \in 1..Len(img_id) |-> IF img_id[i] \in UnsafeChars THEN "_" ELSE img_id[i]]

\* the file names under which task t's bytes were stored: the last segment of
\* its local path and of its URL
StoredNames(t) ==
    {LastSegment(x) : x \in {task[t].img_path, task[t].img_url} \ {<< >>}}

\* C23: the file name an image is stored under has none of the characters
\* of UnsafeChars, ends with a recognized image extension, and is the
\* sanitized ID, with '.png' appended exactly when the sanitized ID does not
\* end with a recognized extension.
C23_SafeFilename ==
    \A t \in Tasks : \A name \in StoredNames(t) :
        /\ \A i \in 1..Len(name) : name[i] \notin UnsafeChars
        /\ EndsWithImageExtension(name)
        /\ name = IF EndsWithImageExtension(Sanitized(Img(t).id))
                  THEN Sanitized(Img(t).id)
                  ELSE Sanitized(Img(t).id) \o DotPng

\* the statement of C23 for the IDs that do not end with a line break
SafeFilenameWithoutLineBreak ==
    \A t \in Tasks : \A name \in StoredNames(t) :
        Img(t).id[Len(Img(t).id)] # "\n" =>
            /\ \A i \in 1..Len(name) : name[i] \notin UnsafeChars
            /\ EndsWithImageExtension(name)
            /\ name = IF EndsWithImageExtension(Sanitized(Img(t).id))
                      THEN Sanitized(Img(t).id)
                      ELSE Sanitized(Img(t).id) \o DotPng

\* C24: after the extraction, every image that returned a record and whose
\* ID lacks a recognized extension has its ID and its ID + '.png' mapped to
\* the same record; an ID with a recognized extension is a key and its
\* ID + '.png' is not.
C24_AliasKeys ==
    ExtractionComplete =>
        \A t \in Tasks :
            task[t].result.ok =>
                LET id == Img(t).id
                IN  /\ id \in DOMAIN image_map
                    /\ ~HasExtension(id, SaveExtensions) =>
                          /\ (id \o DotPng) \in DOMAIN image_map
                          /\ image_map[id] = image_map[id \o DotPng]
                    /\ HasExtension(id, SaveExtensions) =>
                          (id \o DotPng) \notin DOMAIN image_map

\* the statement of C24 for the batches in which no two images share a key
AliasKeysWithoutCollision == NoKeyCollision => C24_AliasKeys


\* the value that get(key) has to return: the one given to set while the key
\* is held, None after the key was deleted or has expired
ExpectedReply(key) ==
    IF key \in DOMAIN redis_sent THEN redis_sent[key] ELSE PyNone

\* C25: for every key k and every value v that set accepts (a string, a
\* number, a dict or a list), get(k) after set(k, v) returns a value equal to
\* v until the key is deleted or expires, and None afterwards.
C25_RoundTrip ==
    redis_reply # NoReply => redis_reply.value = ExpectedReply(redis_reply.key)

\* the round trip of the values that are neither a number nor a string that
\* reads as a JSON list or object, and of the deleted and expired keys
RoundTripOfTextAndContainers ==
    (/\ redis_reply # NoReply
     /\ LET v == ExpectedReply(redis_reply.key)
        IN  /\ v.t # "int"
            /\ v.t = "str" => ~(Len(v.v) > 0 /\ v.v[1] \in {"{", "["} /\ JsonLoads(v.v).ok))
        => redis_reply.value = ExpectedReply(redis_reply.key)

\* a dict came back from the server, and a key that expired reads as None
RoundTripSeen ==
    /\ redis_reply # NoReply
    /\ redis_reply.value.t = "dict"
    /\ \E k \in RedisKeys : k \notin DOMAIN redis_data


\* C26: after any sequence of update_progress calls with arbitrary integer
\* arguments, on BaseTask and on DatabaseAwareTask, the stored progress and
\* every progress value published in a PROGRESS state are within 0..100, and
\* a task whose last report is 100 has progress exactly 100.
C26_ProgressWithinBounds ==
    /\ progress \in 0..100
    /\ published \subseteq 0..100
    /\ progress_log \subseteq 0..100
    /\ (progress_arg # NoProgressArg /\ progress_arg.arg = 100) => progress = 100

\* a DatabaseAwareTask that has published 0 and 60 was given an argument
\* far above 100, and has published and logged that report
C26_Witness ==
    /\ task_class = "DatabaseAwareTask"
    /\ progress_arg # NoProgressArg
    /\ progress_arg.arg > 100
    /\ progress = 100
    /\ {0, 60, 100} \subseteq published
    /\ 100 \in progress_log


\* the map save_images_from_ocr returns when the workers complete in the
\* order of submission
SubmissionOrderMap == InsertAll(task, Len(task))

\* C27: for a fixed set of images and fixed outcomes of their decode, store
\* and describe steps, the map save_images_from_ocr returns is the same for
\* every order in which the workers complete: it is the map of the completion
\* in submission order.
C27_OrderIndependent ==
    ExtractionComplete => image_map = SubmissionOrderMap

\* the statement of C27 for the batches in which no two images share a key
OrderIndependentWithoutCollision ==
    NoKeyCollision => C27_OrderIndependent


\* the task whose bytes are held where the record of task t points
HolderOf(t) ==
    LET rec == task[t].result.img_data
    IN  IF rec.is_s3 THEN remote_objects[rec.path] ELSE local_files[rec.path]

\* C28: within one conversion two images with different IDs never share a
\* storage key or locator: what was written for one image is not overwritten
\* by another image of the batch, and every record's locator holds the bytes
\* of an image with the record's own ID.
C28_DistinctStorageKeys ==
    \A t \in Tasks :
        (Returned(t) /\ task[t].result.ok) =>
            /\ Persisted(task[t].result.img_data)
            /\ Img(HolderOf(t)).id = Img(t).id
            /\ \A u \in Tasks :
                  (Returned(u) /\ task[u].result.ok /\ Img(u).id # Img(t).id) =>
                      task[u].result.img_data.path # task[t].result.img_data.path

\* no two different IDs of the batch are stored under the same file name
NoNameCollision ==
    \A t, u \in Tasks :
        Img(t).id # Img(u).id => SafeFilename(Img(t).id) # SafeFilename(Img(u).id)

\* the statement of C28 for the batches in which different IDs have
\* different file names
DistinctStorageKeysWithoutCollision ==
    NoNameCollision => C28_DistinctStorageKeys


\* the run of the task has finished
RunFinished(id) == worker_pc[id].st \in TerminalStatuses

\* C29: for every task submitted through the API whose audit-log row is
\* created, once the worker run has finished the row eventually holds the
\* terminal status of the run, under every interleaving of the API's
\* create_task_log with the worker's start, progress and completion updates.
C29_EventuallyTerminal ==
    \A id \in SubmittedTasks :
        (RunFinished(id) /\ audit_row[id] # "absent") ~> (audit_row[id] = worker_pc[id].st)

\* the row of a DatabaseAwareTask that was there when the run returned holds
\* the terminal status of the run
TerminalWhenCreatedBeforeReturn ==
    \A id \in SubmittedTasks :
        (/\ RunFinished(id)
         /\ task_base[id] = "DatabaseAwareTask"
         /\ audit_row[id] \notin {"absent", "PENDING"})
            => audit_row[id] = worker_pc[id].st


\* the records that the rewritten links of the document point at: for every
\* reference whose target differs from the OCR's, the record its original
\* target resolves to
LinkedRecords ==
    LET final == FinalRefs
        original == OriginalRefs
    IN  { image_map[Resolved(original[i][2]).key] :
            i \in {j \in 1..Len(final) : /\ j <= Len(original)
                                         /\ final[j][2] # original[j][2]
                                         /\ Resolved(original[j][2]).found} }

\* the task has returned a document URL and its cleanup has run
ReturnedAndCleaned == phase = "cleaned" /\ task_result.st = "returned"

\* C30: when the PDF task returns a document URL, every image link that was
\* rewritten in the document refers to an artifact that still exists after
\* the cleanup of the task, also when the image fell back to the local store
\* after a failed upload.
C30_LinksSurviveCleanup ==
    ReturnedAndCleaned => \A rec \in LinkedRecords : Persisted(rec)

\* the statement of C30 for the links to uploaded images
RemoteLinksSurviveCleanup ==
    ReturnedAndCleaned => \A rec \in LinkedRecords : rec.is_s3 => Persisted(rec)

====
